---------------------------- MODULE Spec2Model ----------------------------
(***************************************************************************)
(* Verification model of the build-my-startup agent framework:            *)
(*   - Agent / MessageBus      (agent_framework/agent.py, message_bus.py)  *)
(*   - TaskTracker and wait_for_completion (build_my_startup/workflow_utils.py) *)
(*   - StandardBuildPipeline   (build_my_startup/pipelines/standard_build.py)   *)
(*   - AdaptiveBuildPipeline   (build_my_startup/pipelines/adaptive_build.py)   *)
(* The specifications share the variables:                                 *)
(*   BusSpec / BusFairSpec : the bus and the receive loops of plain agents *)
(*   FanoutSpec            : broadcasts, topics and direct sends           *)
(*   WaitSpec              : a TaskTracker, mailboxes and one              *)
(*                           wait_for_completion call                      *)
(*   TaskWaitSpec          : wait_for_task and wait_for_all_tasks          *)
(*   Spec                  : run_build of the standard pipeline            *)
(*   ErrSpec               : run_build when coordinate() may raise         *)
(*   SandboxSpec           : run_build when a test run may raise           *)
(*   SubprocessSpec        : run_build with the test run's subprocess as   *)
(*                           a blocking call of two steps                  *)
(*   ParseSpec             : _parse_task_response on bounded responses     *)
(*   AdaptSpec             : run_adaptive_build up to the start of a build *)
(*   RepeatSpec            : the dispatch phase of run_build for a task    *)
(*                           list naming one file several times            *)
(*   PlanSpec              : run_build with generate_plan, up to the first *)
(*                           code_request                                  *)
(*   CrashSpec             : run_build when a handler may raise            *)
(***************************************************************************)
EXTENDS Integers, Sequences, FiniteSets, TLC

VARIABLES
    agents,      \* MessageBus.agents: the registered agent ids
    queue,       \* Agent.message_queue, per agent (FIFO)
    running,     \* Agent.running, per agent
    lpc,         \* position of each agent's receive_messages loop
    cur,         \* the message each agent's handler is handling
    handled,     \* per agent, the messages its handler was invoked on
    clock,       \* source of Message.timestamp
    subscribers, \* MessageBus.subscribers: topic -> list of agent ids
    gathers,     \* the batches of queue puts started with asyncio.gather
    events,      \* TaskTracker.events: task id -> is its Event set
    completed,   \* TaskTracker.completed
    wcfg,        \* arguments of the wait_for_completion call
    wpc,         \* position of the wait_for_completion call
    elapsed,     \* wait_for_completion: elapsed, in poll intervals
    wresult,     \* wait_for_completion: the value returned
    waiters,     \* the wait_for_task coroutines, in the order they were made
    wall,        \* wait_for_all_tasks: the value returned
    config,      \* BuildConfig and the build_tasks argument of run_build
    generated_files,  \* StandardBuildPipeline.generated_files
    test_results,     \* StandardBuildPipeline.test_results
    file_versions,    \* StandardBuildPipeline.file_versions
    task_states,      \* StandardBuildPipeline.task_states
    pending,     \* sends started with asyncio.create_task, not yet run
    lwv,         \* _rollback_handler: last_working_version
    cpc,         \* position of run_build's coordinate()
    next_task,   \* coordinate(): index of the next build task to dispatch
    output_files,     \* the files written to output_dir
    build_result,     \* the dict coordinate() returns
    outcome,     \* how run_build has ended
    plan_output, \* StandardBuildPipeline.plan_output
    response,    \* _ideation_handler: the text generate_response returned
    parsed,      \* _ideation_handler: tasks, as _parse_task_response gave it
    inferred_tasks,   \* AdaptiveBuildPipeline.inferred_tasks
    apc,         \* position of run_adaptive_build
    ielapsed,    \* coordinate_ideation: elapsed, in polls of 0.5 s
    tasks        \* run_adaptive_build: what infer_build_tasks returned

busVars == <<agents, queue, running, lpc, cur, handled, clock, subscribers,
             gathers>>
trackerVars == <<events, completed>>
waitVars == <<wcfg, wpc, elapsed, wresult, waiters, wall>>

pipeVars == <<config, generated_files, test_results, file_versions,
              task_states, pending, lwv, cpc, next_task, output_files,
              build_result, outcome, plan_output>>
adaptVars == <<response, parsed, inferred_tasks, apc, ielapsed, tasks>>
nonBusVars == <<trackerVars, waitVars, pipeVars, adaptVars>>

vars == <<busVars, trackerVars, waitVars, pipeVars, adaptVars>>

NoMsg == [message_type |-> "none"]

(***************************************************************************)
(* StandardBuildPipeline: state                                            *)
(***************************************************************************)
\* A dict with key k set to v
DictSet(d, k, v) == [x \in DOMAIN d \cup {k} |-> IF x = k THEN v ELSE d[x]]

NoVersion == [version |-> -1, code |-> <<>>, test_result |-> "none"]

\* No pipeline exists (BusSpec, WaitSpec)
NoBuild ==
    /\ config = [max_fix_attempts |-> 0, build_tasks |-> <<>>, timeout |-> 0]
    /\ generated_files = <<>>
    /\ test_results = <<>>
    /\ file_versions = <<>>
    /\ task_states = <<>>
    /\ pending = <<>>
    /\ lwv = NoVersion
    /\ cpc = "none"
    /\ next_task = 0
    /\ output_files = <<>>
    /\ build_result = <<>>
    /\ outcome = "none"
    /\ plan_output = <<>>

\* No call of run_adaptive_build has been made (AdaptiveBuildPipeline.__init__)
AdaptIdle ==
    /\ response = <<>>
    /\ parsed = <<>>
    /\ inferred_tasks = <<>>
    /\ apc = "idle"
    /\ ielapsed = 0
    /\ tasks = <<>>

(***************************************************************************)
(* TaskTracker (workflow_utils.py)                                         *)
(***************************************************************************)
\* Task ids are strings such as "code_gen_app.py" or "fix_app.py_2" in the
\* code: here the kind, the file and the number they are built from.
TaskId(kind, f, n) == <<kind, f, n>>

\* TaskTracker.__init__
TrackerInit ==
    /\ events = <<>>
    /\ completed = {}

\* TaskTracker.create_task: a fresh Event stored under task_id
CreateTask(ev, id) ==
    [t \in DOMAIN ev \cup {id} |-> IF t = id THEN FALSE ELSE ev[t]]

\* TaskTracker.complete_task: the events after it
CompleteEvents(ev, id) ==
    IF id \in DOMAIN ev THEN [ev EXCEPT ![id] = TRUE] ELSE ev

\* TaskTracker.complete_task: the completed set after it
CompleteSet(ev, done, id) ==
    IF id \in DOMAIN ev THEN done \cup {id} ELSE done

create_task(id) ==
    /\ events' = CreateTask(events, id)
    /\ UNCHANGED completed

complete_task(id) ==
    /\ events' = CompleteEvents(events, id)
    /\ completed' = CompleteSet(events, completed, id)

(***************************************************************************)
(* wait_for_completion (workflow_utils.py)                                 *)
(***************************************************************************)
\* No call is in progress
WaitIdle ==
    /\ wcfg = [agents |-> {}, tracker |-> FALSE, task_ids |-> {}, timeout |-> 0]
    /\ wpc = "idle"
    /\ elapsed = 0
    /\ wresult = "none"
    /\ waiters = <<>>
    /\ wall = "none"

\* wait_for_completion(agents, task_tracker, task_ids, timeout, poll_interval):
\* elapsed = 0.0; timeout is counted in poll intervals
WaitCall(ags, tracker, ids, timeout) ==
    /\ wcfg' = [agents |-> ags, tracker |-> tracker, task_ids |-> ids,
                timeout |-> timeout]
    /\ wpc' = "check"
    /\ elapsed' = 0
    /\ wresult' = "none"
    /\ UNCHANGED <<adaptVars, waiters, wall>>

\* `if task_tracker and task_ids`
TrackerGiven == wcfg.tracker /\ wcfg.task_ids # {}

\* all(task_id in task_tracker.completed for task_id in task_ids)
AllTasksDone == \A id \in wcfg.task_ids : id \in completed

\* all(agent.message_queue.empty() for agent in agents)
AllEmpty == \A a \in wcfg.agents : queue[a] = <<>>

\* `while elapsed < timeout`
BudgetLeft == elapsed < wcfg.timeout

\* One pass from the loop test to the next sleep: the tracker check, then
\* the first look at the mailboxes
WaitCheckMutant ==
    /\ wpc = "check"
    /\ IF ~BudgetLeft
         THEN wpc' = "done" /\ wresult' = "false"
         ELSE IF AllEmpty
           THEN wpc' = "qwait" /\ UNCHANGED wresult
           ELSE IF TrackerGiven /\ AllTasksDone
             THEN wpc' = "grace" /\ UNCHANGED wresult
             ELSE wpc' = "sleep" /\ UNCHANGED wresult
    /\ UNCHANGED <<adaptVars, wcfg, elapsed, waiters, wall>>
    /\ UNCHANGED <<busVars, trackerVars, pipeVars>>

WaitCheck ==
    /\ wpc = "check"
    /\ IF ~BudgetLeft
         THEN wpc' = "done" /\ wresult' = "false"
         ELSE IF TrackerGiven /\ AllTasksDone
           THEN wpc' = "grace" /\ UNCHANGED wresult
           ELSE IF AllEmpty
             THEN wpc' = "qwait" /\ UNCHANGED wresult
             ELSE wpc' = "sleep" /\ UNCHANGED wresult
    /\ UNCHANGED <<adaptVars, wcfg, elapsed, waiters, wall>>
    /\ UNCHANGED <<busVars, trackerVars, pipeVars>>

\* after `await asyncio.sleep(0.2)`: return True
WaitGrace ==
    /\ wpc = "grace"
    /\ wpc' = "done"
    /\ wresult' = "true"
    /\ UNCHANGED <<adaptVars, wcfg, elapsed, waiters, wall>>
    /\ UNCHANGED <<busVars, trackerVars, pipeVars>>

\* after `await asyncio.sleep(poll_interval)`: the second look at the
\* mailboxes
WaitRecheckMutant ==
    /\ wpc = "qwait"
    /\ wpc' = "done"
    /\ wresult' = "true"
    /\ UNCHANGED <<adaptVars, wcfg, elapsed, waiters, wall>>
    /\ UNCHANGED <<busVars, trackerVars, pipeVars>>

WaitRecheck ==
    /\ wpc = "qwait"
    /\ IF AllEmpty
         THEN wpc' = "done" /\ wresult' = "true"
         ELSE wpc' = "sleep" /\ UNCHANGED wresult
    /\ UNCHANGED <<adaptVars, wcfg, elapsed, waiters, wall>>
    /\ UNCHANGED <<busVars, trackerVars, pipeVars>>

\* `await asyncio.sleep(poll_interval); elapsed += poll_interval`
WaitSleep ==
    /\ wpc = "sleep"
    /\ elapsed' = elapsed + 1
    /\ wpc' = "check"
    /\ UNCHANGED <<adaptVars, wcfg, wresult, waiters, wall>>
    /\ UNCHANGED <<busVars, trackerVars, pipeVars>>

WaitStep == WaitCheck \/ WaitGrace \/ WaitRecheck \/ WaitSleep

(***************************************************************************)
(* Agent / MessageBus                                                      *)
(***************************************************************************)
MaxMsgs == 2

BusIds == {"alice", "bob"}
Contents == {"Hello"}
MsgTypes == {"default", "test"}

\* agent.py: @dataclass Message
Message(s, r, c, t, ts) ==
    [sender_id |-> s, receiver_id |-> r, content |-> c,
     message_type |-> t, timestamp |-> ts]

\* asyncio.Queue.put on an unbounded queue
QueuePut(q, a, m) == [q EXCEPT ![a] = Append(@, m)]

\* MessageBus.__init__ and Agent.__init__
BusInit ==
    /\ agents = {}
    /\ queue = [a \in BusIds |-> <<>>]
    /\ running = [a \in BusIds |-> FALSE]
    /\ lpc = [a \in BusIds |-> "none"]
    /\ cur = [a \in BusIds |-> NoMsg]
    /\ handled = [a \in BusIds |-> <<>>]
    /\ clock = 0
    /\ subscribers = <<>>
    /\ gathers = <<>>
    /\ TrackerInit
    /\ AdaptIdle
    /\ WaitIdle
    /\ NoBuild

register_agent(a) ==
    /\ agents' = agents \cup {a}
    /\ UNCHANGED <<queue, running, lpc, cur, handled, clock, subscribers, gathers>>
    /\ UNCHANGED nonBusVars

unregister_agent(a) ==
    /\ agents' = IF a \in agents THEN agents \ {a} ELSE agents
    /\ UNCHANGED <<queue, running, lpc, cur, handled, clock, subscribers, gathers>>
    /\ UNCHANGED nonBusVars

\* The mailboxes after send_to_agent(sender_id, receiver_id, content, type)
SendToAgentMutant(q, reg, s, r, c, t, ts) ==
    IF s \notin reg \/ r \notin reg THEN q
    ELSE QueuePut(q, s, Message(s, r, c, t, ts))

SendToAgentUnchecked(q, reg, s, r, c, t, ts) ==
    IF r \notin reg THEN q
    ELSE QueuePut(q, r, Message(s, r, c, t, ts))

SendToAgent(q, reg, s, r, c, t, ts) ==
    IF s \notin reg THEN q
    ELSE IF r \notin reg THEN q
    ELSE QueuePut(q, r, Message(s, r, c, t, ts))

send_to_agent(s, r, c, t) ==
    /\ clock < MaxMsgs
    /\ clock' = clock + 1
    /\ queue' = SendToAgent(queue, agents, s, r, c, t, clock + 1)
    /\ UNCHANGED <<agents, running, lpc, cur, handled, subscribers, gathers>>
    /\ UNCHANGED nonBusVars

\* Agent.start: running = True, then receive_messages()
start(a) ==
    /\ lpc[a] \in {"none", "exited", "crashed"}
    /\ running' = [running EXCEPT ![a] = TRUE]
    /\ lpc' = [lpc EXCEPT ![a] = "polling"]
    /\ UNCHANGED <<agents, queue, cur, handled, clock, subscribers, gathers>>
    /\ UNCHANGED nonBusVars

\* Agent.stop
stop(a) ==
    /\ running[a]
    /\ running' = [running EXCEPT ![a] = FALSE]
    /\ UNCHANGED <<agents, queue, lpc, cur, handled, clock, subscribers, gathers>>
    /\ UNCHANGED nonBusVars

LoopContinuesMutant(a) == a \in DOMAIN running

\* receive_messages: the loop condition, `running or not queue.empty()`
LoopContinues(a) == running[a] \/ queue[a] # <<>>

\* receive_messages: queue.get() has a message to return
CanGet(a) == lpc[a] = "polling" /\ queue[a] # <<>>

\* receive_messages: get() returns the head and the handler is invoked on it
ReceiveMutant(a) ==
    /\ CanGet(a)
    /\ cur' = [cur EXCEPT ![a] = Head(queue[a])]
    /\ handled' = [handled EXCEPT ![a] = Append(@, Head(queue[a]))]
    /\ lpc' = [lpc EXCEPT ![a] = "handling"]
    /\ UNCHANGED <<agents, queue, running, clock, subscribers, gathers>>
    /\ UNCHANGED nonBusVars

Receive(a) ==
    /\ CanGet(a)
    /\ cur' = [cur EXCEPT ![a] = Head(queue[a])]
    /\ queue' = [queue EXCEPT ![a] = Tail(@)]
    /\ handled' = [handled EXCEPT ![a] = Append(@, Head(queue[a]))]
    /\ lpc' = [lpc EXCEPT ![a] = "handling"]
    /\ UNCHANGED <<agents, running, clock, subscribers, gathers>>
    /\ UNCHANGED nonBusVars

\* receive_messages: the handler returns, task_done(), back to the loop test
HandlerReturn(a) ==
    /\ lpc[a] = "handling"
    /\ lpc' = [lpc EXCEPT ![a] = "polling"]
    /\ cur' = [cur EXCEPT ![a] = NoMsg]
    /\ UNCHANGED <<agents, queue, running, handled, clock, subscribers, gathers>>
    /\ UNCHANGED nonBusVars

HandlerRaiseMutant(a) ==
    /\ lpc[a] = "handling"
    /\ lpc' = [b \in DOMAIN lpc |-> "crashed"]
    /\ UNCHANGED <<agents, queue, running, cur, handled, clock, subscribers, gathers>>
    /\ UNCHANGED nonBusVars

\* receive_messages: an exception of the handler is not caught (only
\* asyncio.TimeoutError is) and ends the loop
HandlerRaise(a) ==
    /\ lpc[a] = "handling"
    /\ lpc' = [lpc EXCEPT ![a] = "crashed"]
    /\ UNCHANGED <<agents, queue, running, cur, handled, clock, subscribers, gathers>>
    /\ UNCHANGED nonBusVars

\* receive_messages: get() timed out and the loop condition is false
LoopExit(a) ==
    /\ lpc[a] = "polling"
    /\ ~LoopContinues(a)
    /\ lpc' = [lpc EXCEPT ![a] = "exited"]
    /\ UNCHANGED <<agents, queue, running, cur, handled, clock, subscribers, gathers>>
    /\ UNCHANGED nonBusVars

BusNext ==
    \/ \E a \in BusIds : register_agent(a)
    \/ \E a \in BusIds : unregister_agent(a)
    \/ \E s \in BusIds, r \in BusIds, c \in Contents, t \in MsgTypes :
          send_to_agent(s, r, c, t)
    \/ \E a \in BusIds : start(a)
    \/ \E a \in BusIds : stop(a)
    \/ \E a \in BusIds : Receive(a)
    \/ \E a \in BusIds : HandlerReturn(a)
    \/ \E a \in BusIds : HandlerRaise(a)
    \/ \E a \in BusIds : LoopExit(a)

BusSpec == BusInit /\ [][BusNext]_vars

\* One task per receive loop on the event loop: a loop that can take a
\* message takes it, and a handler that was invoked ends (returns or raises).
BusFairness ==
    \A a \in BusIds :
        /\ WF_vars(Receive(a))
        /\ WF_vars(HandlerReturn(a) \/ HandlerRaise(a))

BusFairSpec == BusInit /\ [][BusNext]_vars /\ BusFairness

(***************************************************************************)
(* FanoutSpec: broadcast, topics and Agent.send_message over three agents  *)
(* whose receive loops run                                                 *)
(***************************************************************************)
FanIds == {"alice", "bob", "carol"}

\* The agents that send (the publisher of topic_subscription_demo)
Senders == {"alice"}
Topics == {"news"}

\* f"topic:{topic}"
TopicType(topic) == IF topic = "news" THEN "topic:news" ELSE "topic:"

\* The members of a list
Range(s) == {s[i] : i \in DOMAIN s}

\* MessageBus.subscribe_to_topic: the subscribers dict after it
Subscribe(subs, a, topic) ==
    LET old == IF topic \in DOMAIN subs THEN subs[topic] ELSE <<>>
    IN  DictSet(subs, topic, IF a \in Range(old) THEN old ELSE Append(old, a))

\* subscribe_to_topic(agent_id, topic); for an id that is not registered the
\* print of line 89 raises KeyError after the id was appended
subscribe_to_topic(a, topic) ==
    /\ subscribers' = Subscribe(subscribers, a, topic)
    /\ UNCHANGED <<agents, queue, running, lpc, cur, handled, clock, gathers>>
    /\ UNCHANGED nonBusVars

\* self.agents.items() as a list (the order of the dict is not modelled: each
\* put of a broadcast goes to a different mailbox)
RECURSIVE AsList(_)
AsList(S) ==
    IF S = {} THEN <<>>
    ELSE LET a == CHOOSE x \in S : TRUE IN <<a>> \o AsList(S \ {a})

\* The elements of list s that are in set S, in the order of s
RECURSIVE Filter(_, _)
Filter(s, S) ==
    IF s = <<>> THEN <<>>
    ELSE (IF Head(s) \in S THEN <<Head(s)>> ELSE <<>>) \o Filter(Tail(s), S)

\* broadcast_message: the agents a message is built for
BroadcastTargetsMutant(reg, s, exclude_sender) ==
    IF s \notin reg THEN <<>> ELSE AsList(reg)

BroadcastTargets(reg, s, exclude_sender) ==
    IF s \notin reg THEN <<>>
    ELSE AsList({a \in reg : ~(exclude_sender /\ a = s)})

\* publish_to_topic: the agents a message is built for
PublishTargetsMutant(subs, reg, s, topic) ==
    IF topic \notin DOMAIN subs THEN <<>>
    ELSE IF s \notin reg THEN <<>>
    ELSE Filter(subs[topic], reg)

PublishTargets(subs, reg, s, topic) ==
    IF topic \notin DOMAIN subs THEN <<>>
    ELSE IF s \notin reg THEN <<>>
    ELSE Filter(subs[topic], reg \ {s})

\* tasks: one queue put per target, each with its own Message
Batch(targets, s, c, t, ts) ==
    [i \in DOMAIN targets |-> Message(s, targets[i], c, t, ts)]

\* `await asyncio.gather(*tasks)`: the puts run as tasks of their own, one
\* after the other, once the event loop gets to them; with no task there is
\* nothing to wait for
StartGather(g, batch) == IF batch = <<>> THEN g ELSE Append(g, batch)

broadcast_message(s, c, t, exclude_sender) ==
    /\ clock < MaxMsgs
    /\ clock' = clock + 1
    /\ gathers' = StartGather(gathers,
            Batch(BroadcastTargets(agents, s, exclude_sender), s, c, t,
                  clock + 1))
    /\ UNCHANGED <<agents, queue, running, lpc, cur, handled, subscribers>>
    /\ UNCHANGED nonBusVars

publish_to_topic(s, topic, c) ==
    /\ clock < MaxMsgs
    /\ clock' = clock + 1
    /\ gathers' = StartGather(gathers,
            Batch(PublishTargets(subscribers, agents, s, topic), s, c,
                  TopicType(topic), clock + 1))
    /\ UNCHANGED <<agents, queue, running, lpc, cur, handled, subscribers>>
    /\ UNCHANGED nonBusVars

\* The mailboxes after the puts of a batch
RECURSIVE PutAll(_, _)
PutAll(q, batch) ==
    IF batch = <<>> THEN q
    ELSE PutAll(QueuePut(q, Head(batch).receiver_id, Head(batch)), Tail(batch))

\* The puts of the oldest gather run; broadcast_message or publish_to_topic
\* returns after them
GatherPuts ==
    /\ gathers # <<>>
    /\ queue' = PutAll(queue, Head(gathers))
    /\ gathers' = Tail(gathers)
    /\ UNCHANGED <<agents, running, lpc, cur, handled, clock, subscribers>>
    /\ UNCHANGED nonBusVars

\* Agent.send_message(receiver, content, message_type): a put into the
\* receiver's mailbox, without the bus
send_message(s, r, c, t) ==
    /\ clock < MaxMsgs
    /\ clock' = clock + 1
    /\ queue' = QueuePut(queue, r, Message(s, r, c, t, clock + 1))
    /\ UNCHANGED <<agents, running, lpc, cur, handled, subscribers, gathers>>
    /\ UNCHANGED nonBusVars

\* A bus with no agent registered yet; every agent's receive loop runs
FanInit ==
    /\ agents = {}
    /\ queue = [a \in FanIds |-> <<>>]
    /\ running = [a \in FanIds |-> TRUE]
    /\ lpc = [a \in FanIds |-> "polling"]
    /\ cur = [a \in FanIds |-> NoMsg]
    /\ handled = [a \in FanIds |-> <<>>]
    /\ clock = 0
    /\ subscribers = <<>>
    /\ gathers = <<>>
    /\ TrackerInit
    /\ AdaptIdle
    /\ WaitIdle
    /\ NoBuild

FanNext ==
    \/ \E a \in FanIds : register_agent(a)
    \/ \E a \in FanIds : unregister_agent(a)
    \/ \E a \in FanIds, topic \in Topics : subscribe_to_topic(a, topic)
    \/ \E s \in Senders, c \in Contents, ex \in BOOLEAN :
          broadcast_message(s, c, "broadcast", ex)
    \/ \E s \in Senders, topic \in Topics, c \in Contents :
          publish_to_topic(s, topic, c)
    \/ \E s \in Senders, r \in FanIds, c \in Contents :
          send_to_agent(s, r, c, "default")
    \/ \E s \in Senders, r \in FanIds, c \in Contents :
          send_message(s, r, c, "default")
    \/ GatherPuts
    \/ \E a \in FanIds : Receive(a)
    \/ \E a \in FanIds : HandlerReturn(a)

FanoutSpec == FanInit /\ [][FanNext]_vars

(***************************************************************************)
(* WaitSpec: one wait_for_completion call over a tracker and two mailboxes *)
(* that other coroutines fill, drain, create and complete meanwhile        *)
(***************************************************************************)
MaxPolls == 3

WaitTaskIds == {TaskId("code_gen", "app.py", 0), TaskId("review", "app.py", 0)}

WaitInit ==
    /\ agents = BusIds
    /\ queue = [a \in BusIds |-> <<>>]
    /\ running = [a \in BusIds |-> TRUE]
    /\ lpc = [a \in BusIds |-> "polling"]
    /\ cur = [a \in BusIds |-> NoMsg]
    /\ handled = [a \in BusIds |-> <<>>]
    /\ clock = 0
    /\ subscribers = <<>>
    /\ gathers = <<>>
    /\ TrackerInit
    /\ AdaptIdle
    /\ NoBuild
    /\ \E ags \in {BusIds, {"bob"}}, tracker \in BOOLEAN,
          ids \in SUBSET WaitTaskIds, timeout \in 0..MaxPolls :
            /\ wcfg = [agents |-> ags, tracker |-> tracker, task_ids |-> ids,
                       timeout |-> timeout]
            /\ wpc = "check"
            /\ elapsed = 0
            /\ wresult = "none"
    /\ waiters = <<>>
    /\ wall = "none"

WaitNext ==
    \/ \E id \in WaitTaskIds :
          create_task(id) /\ UNCHANGED <<busVars, waitVars, adaptVars, pipeVars>>
    \/ \E id \in WaitTaskIds :
          complete_task(id) /\ UNCHANGED <<busVars, waitVars, adaptVars, pipeVars>>
    \/ \E r \in BusIds : send_to_agent("alice", r, "Hello", "default")
    \/ \E a \in BusIds : Receive(a)
    \/ \E a \in BusIds : HandlerReturn(a)
    \/ WaitCheck
    \/ WaitGrace
    \/ WaitRecheck
    \/ WaitSleep

WaitSpec == WaitInit /\ [][WaitNext]_vars

(***************************************************************************)
(* TaskTracker.wait_for_task and wait_for_all_tasks (workflow_utils.py)    *)
(*                                                                         *)
(* A wait_for_task coroutine fetches the Event object stored under its     *)
(* task id once, at line 84, and waits on that object.  The model keeps    *)
(* with each coroutine what it needs of the object it holds: whether the   *)
(* object is still the one stored in self.events (current) and whether it  *)
(* is set.  Timeouts are counted in ticks of the event loop's clock.       *)
(***************************************************************************)
MaxWaiters == 3
MaxTimeout == 2

\* wait_for_task, from its call to its first await
StartWaiter(ev, id, timeout, group) ==
    IF id \notin DOMAIN ev
      THEN [task_id |-> id, current |-> FALSE, is_set |-> FALSE,
            left |-> timeout, result |-> "false", group |-> group]
      ELSE [task_id |-> id, current |-> TRUE, is_set |-> ev[id],
            left |-> timeout, result |-> "pending", group |-> group]

\* The Event objects held by waiting coroutines after create_task(id): the
\* dict entry now names a new object
AfterCreate(ws, id) ==
    [i \in DOMAIN ws |->
        IF ws[i].task_id = id THEN [ws[i] EXCEPT !.current = FALSE]
                              ELSE ws[i]]

\* ... and after complete_task(id): self.events[task_id].set()
AfterComplete(ws, id) ==
    [i \in DOMAIN ws |->
        IF ws[i].task_id = id /\ ws[i].current
          THEN [ws[i] EXCEPT !.is_set = TRUE]
          ELSE ws[i]]

TWCreate(id) ==
    /\ create_task(id)
    /\ waiters' = AfterCreate(waiters, id)
    /\ UNCHANGED <<adaptVars, wcfg, wpc, elapsed, wresult, wall>>
    /\ UNCHANGED <<busVars, pipeVars>>

TWComplete(id) ==
    /\ complete_task(id)
    /\ waiters' = AfterComplete(waiters, id)
    /\ UNCHANGED <<adaptVars, wcfg, wpc, elapsed, wresult, wall>>
    /\ UNCHANGED <<busVars, pipeVars>>

\* await tracker.wait_for_task(task_id, timeout)
wait_for_task(id, timeout) ==
    /\ Len(waiters) < MaxWaiters
    /\ waiters' = Append(waiters, StartWaiter(events, id, timeout, 0))
    /\ UNCHANGED <<adaptVars, wcfg, wpc, elapsed, wresult, wall>>
    /\ UNCHANGED <<busVars, trackerVars, pipeVars>>

\* The coroutines of one wait_for_all_tasks call
Group(ws) == {i \in DOMAIN ws : ws[i].group = 1}

RECURSIVE StartAll(_, _, _, _)
StartAll(ws, ev, ids, timeout) ==
    IF ids = <<>> THEN ws
    ELSE StartAll(Append(ws, StartWaiter(ev, Head(ids), timeout, 1)),
                  ev, Tail(ids), timeout)

\* wait_for_all_tasks(task_ids, timeout): asyncio.gather runs one
\* wait_for_task per id, one after the other up to their first await
wait_for_all_tasks(ids, timeout) ==
    /\ wall = "none"
    /\ Len(waiters) + Len(ids) <= MaxWaiters
    /\ waiters' = StartAll(waiters, events, ids, timeout)
    /\ wall' = "pending"
    /\ UNCHANGED <<adaptVars, wcfg, wpc, elapsed, wresult>>
    /\ UNCHANGED <<busVars, trackerVars, pipeVars>>

\* event.wait() has returned: return True
WaiterWake(i) ==
    /\ waiters[i].result = "pending"
    /\ waiters[i].is_set
    /\ waiters' = [waiters EXCEPT ![i].result = "true"]
    /\ UNCHANGED <<adaptVars, wcfg, wpc, elapsed, wresult, wall>>
    /\ UNCHANGED <<busVars, trackerVars, pipeVars>>

\* One tick of the clock: asyncio.wait_for raises TimeoutError in every
\* coroutine whose time is up and whose Event is not set: return False
Expire(w) ==
    IF w.result # "pending" \/ w.is_set THEN w
    ELSE IF w.left > 1 THEN [w EXCEPT !.left = w.left - 1]
    ELSE [w EXCEPT !.left = 0, !.result = "false"]

Tick ==
    /\ \E i \in DOMAIN waiters :
          waiters[i].result = "pending" /\ ~waiters[i].is_set
    /\ waiters' = [i \in DOMAIN waiters |-> Expire(waiters[i])]
    /\ UNCHANGED <<adaptVars, wcfg, wpc, elapsed, wresult, wall>>
    /\ UNCHANGED <<busVars, trackerVars, pipeVars>>

\* return all(r is True for r in results)
AllReturn ==
    /\ wall = "pending"
    /\ \A i \in Group(waiters) : waiters[i].result # "pending"
    /\ wall' = IF \A i \in Group(waiters) : waiters[i].result = "true"
                THEN "true" ELSE "false"
    /\ UNCHANGED <<adaptVars, wcfg, wpc, elapsed, wresult, waiters>>
    /\ UNCHANGED <<busVars, trackerVars, pipeVars>>

TaskWaitInit ==
    /\ agents = {}
    /\ queue = <<>>
    /\ running = <<>>
    /\ lpc = <<>>
    /\ cur = <<>>
    /\ handled = <<>>
    /\ clock = 0
    /\ subscribers = <<>>
    /\ gathers = <<>>
    /\ TrackerInit
    /\ AdaptIdle
    /\ NoBuild
    /\ WaitIdle

TaskWaitNext ==
    \/ \E id \in WaitTaskIds : TWCreate(id)
    \/ \E id \in WaitTaskIds : TWComplete(id)
    \/ \E id \in WaitTaskIds, timeout \in 1..MaxTimeout :
          wait_for_task(id, timeout)
    \/ \E ids \in {<<x, y>> : x \in WaitTaskIds, y \in WaitTaskIds},
          timeout \in 1..MaxTimeout : wait_for_all_tasks(ids, timeout)
    \/ \E i \in DOMAIN waiters : WaiterWake(i)
    \/ Tick
    \/ AllReturn

TaskWaitSpec == TaskWaitInit /\ [][TaskWaitNext]_vars

(***************************************************************************)
(* Generated content: code_safety.py and code_extraction.py                *)
(***************************************************************************)
\* A generated text is the sequence of its lines.  The lines writers return:
SafeLine == "print('hi')"
UnsafeLine == "eval(x)"
ProseLine == "Here is the code:"

\* The fence lines of a markdown code block: bare, python, html
Fence == "[fence]"
FencePython == "[fence]python"
FenceHtml == "[fence]html"

\* The texts write_code returns in the model: clean code, and code with a
\* banned call
Codes == {<<SafeLine>>, <<UnsafeLine>>}

\* DEFAULT_BANNED_SNIPPETS that occur in a line (substring test)
SnippetsIn(line) == IF line = UnsafeLine THEN {"eval("} ELSE {}

\* len(line)
LineLen(line) ==
    CASE line = SafeLine -> 11
      [] line = UnsafeLine -> 7
      [] line = ProseLine -> 17
      [] line = FencePython -> 9
      [] line = FenceHtml -> 7
      [] line = Fence -> 3
      [] OTHER -> 0

\* is_safe_code: the violations found
Violations(code) == UNION {SnippetsIn(code[i]) : i \in DOMAIN code}

\* is_safe_code(filename, code)[0], with safety.bypass_all_safety_checks at
\* its default (False)
is_safe_code(filename, code) ==
    IF code = <<>> THEN TRUE ELSE Violations(code) = {}

\* extract_file_content: the line opens or closes a fenced block
IsFence(line) == line \in {Fence, FencePython, FenceHtml}

\* extract_file_content: stripped[3:].strip().lower()
FenceLang(line) ==
    CASE line = FencePython -> "python"
      [] line = FenceHtml -> "html"
      [] OTHER -> ""

\* extract_file_content: task_lang
TaskLang(task_name) ==
    CASE task_name \in {"app.py", "util.py"} -> "python"
      [] task_name = "index.html" -> "html"
      [] OTHER -> ""

\* extract_file_content: the loop over the lines, from line i on, collecting
\* the non-empty fenced blocks
RECURSIVE CodeBlocks(_, _, _, _, _, _)
CodeBlocks(lines, i, in_code, current, lang, blocks) ==
    IF i > Len(lines)
      THEN IF current # <<>> /\ in_code
             THEN Append(blocks, [lang |-> lang, code |-> current])
             ELSE blocks
      ELSE IF IsFence(lines[i])
        THEN IF in_code
               THEN CodeBlocks(lines, i + 1, FALSE, <<>>, lang,
                        IF current # <<>>
                          THEN Append(blocks, [lang |-> lang, code |-> current])
                          ELSE blocks)
               ELSE CodeBlocks(lines, i + 1, TRUE, current,
                               FenceLang(lines[i]), blocks)
        ELSE CodeBlocks(lines, i + 1, in_code,
                        IF in_code THEN Append(current, lines[i]) ELSE current,
                        lang, blocks)

\* The number of characters of the block's lines joined by newlines
RECURSIVE CharLen(_)
CharLen(code) ==
    IF code = <<>> THEN 0
    ELSE LineLen(Head(code)) + (IF Len(code) > 1 THEN 1 ELSE 0)
           + CharLen(Tail(code))

\* extract_file_content(task_name, content)[0]
extract_file_content(task_name, content) ==
    IF content = <<>> THEN content
    ELSE IF \E i \in DOMAIN content :
                IsFence(content[i]) \/ content[i] = ProseLine
      THEN LET blocks == CodeBlocks(content, 1, FALSE, <<>>, "", <<>>)
               lang == TaskLang(task_name)
               matching == {i \in DOMAIN blocks :
                               lang # "" /\ blocks[i].lang = lang}
               longest == {i \in DOMAIN blocks :
                              \A j \in DOMAIN blocks :
                                  /\ CharLen(blocks[j].code) <= CharLen(blocks[i].code)
                                  /\ (j < i => CharLen(blocks[j].code)
                                                  < CharLen(blocks[i].code))}
           IN  IF blocks = <<>> THEN content
               ELSE IF matching # {}
                 THEN blocks[CHOOSE i \in matching : \A j \in matching : i <= j].code
                 ELSE blocks[CHOOSE i \in longest : TRUE].code
      ELSE content

(***************************************************************************)
(* StandardBuildPipeline: helpers                                          *)
(***************************************************************************)
MaxFix == 2
MaxTasks == 2

Files == {"app.py"}

Roster == {"Coordinator", "CodeWriter", "CodeReviewer", "TestGenerator",
           "TestRunner", "RollbackAgent"}

\* The content dict of a pipeline message
Content(f, tid, is_fix, code, n) ==
    [file |-> f, task_id |-> tid, is_fix |-> is_fix, code |-> code,
     fix_count |-> n]

\* A pipeline message (its timestamp is never read)
PMsg(s, r, type, content) == Message(s, r, content, type, 0)

\* asyncio.create_task(self.bus.send_to_agent(...))
Spawn(p, m) == Append(p, m)

\* get_task_state: the entry is created on first use
get_task_state(ts, f) ==
    IF f \in DOMAIN ts THEN ts
    ELSE DictSet(ts, f, [state |-> "init", fix_count |-> 0])

\* state_info["state"] = s
SetState(ts, f, s) == DictSet(ts, f, [ts[f] EXCEPT !.state = s])

\* save_version(task_name, code, test_result)
save_versionMutant(fv, f, code, tr) ==
    DictSet(fv, f, <<[version |-> 0, code |-> code, test_result |-> tr]>>)

save_version(fv, f, code, tr) ==
    LET old == IF f \in DOMAIN fv THEN fv[f] ELSE <<>>
    IN  DictSet(fv, f, Append(old, [version |-> Len(old), code |-> code,
                                    test_result |-> tr]))

\* self.generated_files.get(file_task, "")
GeneratedOrEmpty(gf, f) == IF f \in DOMAIN gf THEN gf[f] ELSE <<>>

\* `test_res and test_res.get("passed")`
Passed(tr) == tr \in {"passed", "passed_rollback"}

\* The handler of agent a is suspended in an LLM call made for a message of
\* type t
Suspended(a, t) == lpc[a] = "handling" /\ cur[a].message_type = t

\* The head of agent a's mailbox can be taken and has type t
Next_(a, t) == CanGet(a) /\ Head(queue[a]).message_type = t

\* The handler takes the message and suspends in its LLM call
Suspend(a) ==
    /\ queue' = [queue EXCEPT ![a] = Tail(@)]
    /\ cur' = [cur EXCEPT ![a] = Head(queue[a])]
    /\ lpc' = [lpc EXCEPT ![a] = "handling"]

\* The handler takes the message and returns without suspending
TakeAndReturn(a) ==
    /\ queue' = [queue EXCEPT ![a] = Tail(@)]
    /\ UNCHANGED <<cur, lpc>>

\* The suspended handler runs to its end and returns to the receive loop
Return(a) ==
    /\ cur' = [cur EXCEPT ![a] = NoMsg]
    /\ lpc' = [lpc EXCEPT ![a] = "polling"]

(***************************************************************************)
(* _enhanced_writer_handler                                                *)
(***************************************************************************)
\* code_request: the states in which the request is dropped
WriterDrops(state) == state \in {"generating", "reviewing", "testing"}

\* code_request, up to `await writer.write_code(...)`
WriterCodeRequest ==
    /\ Next_("CodeWriter", "code_request")
    /\ LET f == Head(queue["CodeWriter"]).content.file
           ts == get_task_state(task_states, f)
       IN  IF WriterDrops(ts[f].state)
             THEN /\ TakeAndReturn("CodeWriter")
                  /\ task_states' = ts
                  /\ UNCHANGED events
             ELSE /\ Suspend("CodeWriter")
                  /\ task_states' = SetState(ts, f, "generating")
                  /\ events' = CreateTask(events, TaskId("code_gen", f, 0))
    /\ UNCHANGED <<agents, running, handled, clock, subscribers, gathers, completed, waitVars, adaptVars>>
    /\ UNCHANGED <<plan_output, outcome, config, generated_files, test_results, file_versions,
                   pending, lwv, cpc, next_task, output_files, build_result>>

\* code_request, from the text write_code returned to the end
WriterCodeRequestDone(code) ==
    /\ Suspended("CodeWriter", "code_request")
    /\ LET f == cur["CodeWriter"].content.file
           task_id == TaskId("code_gen", f, 0)
           fix_task_id == TaskId("fix_safety", f, 0)
           review_task_id == TaskId("review", f, 0)
       IN  IF ~is_safe_code(f, code)
             THEN /\ events' = CreateTask(events, fix_task_id)
                  /\ pending' = Spawn(pending,
                        PMsg("CodeWriter", "CodeWriter", "improve_code_request",
                             Content(f, fix_task_id, FALSE, <<>>, 1)))
                  /\ UNCHANGED <<completed, generated_files, file_versions,
                                 task_states>>
             ELSE /\ generated_files' = DictSet(generated_files, f, code)
                  /\ file_versions' = save_version(file_versions, f, code, "none")
                  /\ task_states' = SetState(task_states, f, "reviewing")
                  /\ completed' = CompleteSet(events, completed, task_id)
                  /\ events' = CreateTask(CompleteEvents(events, task_id),
                                          review_task_id)
                  /\ pending' = Spawn(pending,
                        PMsg("CodeWriter", "CodeReviewer", "review_request",
                             Content(f, review_task_id, FALSE, code, 0)))
    /\ Return("CodeWriter")
    /\ UNCHANGED <<agents, queue, running, handled, clock, subscribers, gathers, waitVars, adaptVars>>
    /\ UNCHANGED <<plan_output, outcome, config, test_results, lwv, cpc, next_task, output_files,
                   build_result>>

\* improve_code_request, up to `await writer.write_code(description)`
WriterImprove ==
    /\ Next_("CodeWriter", "improve_code_request")
    /\ LET f == Head(queue["CodeWriter"]).content.file
           ts == get_task_state(task_states, f)
       IN  task_states' = IF ts[f].state = "done"
                            THEN SetState(ts, f, "improving") ELSE ts
    /\ Suspend("CodeWriter")
    /\ UNCHANGED <<agents, running, handled, clock, subscribers, gathers, trackerVars, waitVars, adaptVars>>
    /\ UNCHANGED <<plan_output, outcome, config, generated_files, test_results, file_versions,
                   pending, lwv, cpc, next_task, output_files, build_result>>

\* What the writer does with the text returned for an improve_code_request
\* or a fix_code_request: store it, save a version, move to reviewing,
\* complete the request's task id and ask for a review
WriterStores(f, code, done_id, review_task_id) ==
    /\ generated_files' = DictSet(generated_files, f, code)
    /\ file_versions' = save_version(file_versions, f, code, "none")
    /\ task_states' = SetState(get_task_state(task_states, f), f, "reviewing")
    /\ completed' = CompleteSet(events, completed, done_id)
    /\ events' = CreateTask(CompleteEvents(events, done_id), review_task_id)
    /\ pending' = Spawn(pending,
            PMsg("CodeWriter", "CodeReviewer", "review_request",
                 Content(f, review_task_id, TRUE, code, 0)))

\* improve_code_request, from the text write_code returned to the end
WriterImproveDone(code) ==
    /\ Suspended("CodeWriter", "improve_code_request")
    /\ LET c == cur["CodeWriter"].content
       IN  WriterStores(c.file, code, c.task_id,
                        TaskId("review_iter", c.file, c.fix_count))
    /\ Return("CodeWriter")
    /\ UNCHANGED <<agents, queue, running, handled, clock, subscribers, gathers, waitVars, adaptVars>>
    /\ UNCHANGED <<plan_output, outcome, config, test_results, lwv, cpc, next_task, output_files,
                   build_result>>

\* fix_code_request, up to `await writer.write_code(fix_description)`
WriterFix ==
    /\ Next_("CodeWriter", "fix_code_request")
    /\ LET c == Head(queue["CodeWriter"]).content
           f == c.file
           ts == get_task_state(task_states, f)
       IN  IF ts[f].state # "fixing"
             THEN /\ TakeAndReturn("CodeWriter")
                  /\ task_states' = ts
                  /\ completed' = CompleteSet(events, completed, c.task_id)
                  /\ events' = CompleteEvents(events, c.task_id)
             ELSE /\ Suspend("CodeWriter")
                  /\ task_states' = SetState(ts, f, "generating")
                  /\ UNCHANGED trackerVars
    /\ UNCHANGED <<agents, running, handled, clock, subscribers, gathers, waitVars, adaptVars>>
    /\ UNCHANGED <<plan_output, outcome, config, generated_files, test_results, file_versions,
                   pending, lwv, cpc, next_task, output_files, build_result>>

\* fix_code_request, from the text write_code returned to the end
WriterFixDone(code) ==
    /\ Suspended("CodeWriter", "fix_code_request")
    /\ LET c == cur["CodeWriter"].content
       IN  WriterStores(c.file, code, c.task_id,
                        TaskId("review_fix", c.file, c.fix_count))
    /\ Return("CodeWriter")
    /\ UNCHANGED <<agents, queue, running, handled, clock, subscribers, gathers, waitVars, adaptVars>>
    /\ UNCHANGED <<plan_output, outcome, config, test_results, lwv, cpc, next_task, output_files,
                   build_result>>

\* Any other message type (the "code_review" text review_code sends to the
\* author): no branch of the handler matches
WriterIgnores ==
    /\ Next_("CodeWriter", "code_review")
    /\ TakeAndReturn("CodeWriter")
    /\ UNCHANGED <<agents, running, handled, clock, subscribers, gathers, nonBusVars>>

(***************************************************************************)
(* _reviewer_handler                                                       *)
(***************************************************************************)
\* review_request, up to `await reviewer.review_code(...)`
ReviewerBegin ==
    /\ Next_("CodeReviewer", "review_request")
    /\ LET c == Head(queue["CodeReviewer"]).content
           f == c.file
           ts == get_task_state(task_states, f)
       IN  IF ts[f].state \notin {"reviewing", "generating"} /\ ~c.is_fix
             THEN /\ TakeAndReturn("CodeReviewer")
                  /\ task_states' = ts
             ELSE /\ Suspend("CodeReviewer")
                  /\ task_states' = IF ~c.is_fix
                                      THEN SetState(ts, f, "reviewing") ELSE ts
    /\ UNCHANGED <<agents, running, handled, clock, subscribers, gathers, trackerVars, waitVars, adaptVars>>
    /\ UNCHANGED <<plan_output, outcome, config, generated_files, test_results, file_versions,
                   pending, lwv, cpc, next_task, output_files, build_result>>

\* review_request: the handler's second half asking for tests only after a
\* first review
ReviewerDoneMutant ==
    /\ Suspended("CodeReviewer", "review_request")
    /\ LET c == cur["CodeReviewer"].content
           f == c.file
           test_task_id == TaskId("test_gen", f, 0)
       IN  /\ queue' = SendToAgent(queue, agents, "CodeReviewer", "CodeWriter",
                           Content(f, c.task_id, FALSE, <<>>, 0),
                           "code_review", 0)
           /\ task_states' = SetState(get_task_state(task_states, f), f,
                                      "testing")
           /\ completed' = CompleteSet(events, completed, c.task_id)
           /\ events' = CreateTask(CompleteEvents(events, c.task_id),
                                   test_task_id)
           /\ pending' = IF c.is_fix THEN pending
                ELSE Spawn(pending,
                  PMsg("CodeReviewer", "TestGenerator", "generate_test_request",
                       Content(f, test_task_id, c.is_fix, c.code, 0)))
    /\ Return("CodeReviewer")
    /\ UNCHANGED <<agents, running, handled, clock, subscribers, gathers, waitVars, adaptVars>>
    /\ UNCHANGED <<plan_output, outcome, config, generated_files, test_results, file_versions,
                   lwv, cpc, next_task, output_files, build_result>>

\* review_request, from the text the model returned to the end: review_code
\* sends the review to the author, then the handler moves the file to testing
\* and asks for tests.  The handler does not read the review: it prints it
\* and passes it on in the content of the test request.
ReviewerDone ==
    /\ Suspended("CodeReviewer", "review_request")
    /\ LET c == cur["CodeReviewer"].content
           f == c.file
           test_task_id == TaskId("test_gen", f, 0)
       IN  /\ queue' = SendToAgent(queue, agents, "CodeReviewer", "CodeWriter",
                           Content(f, c.task_id, FALSE, <<>>, 0),
                           "code_review", 0)
           /\ task_states' = SetState(get_task_state(task_states, f), f,
                                      "testing")
           /\ completed' = CompleteSet(events, completed, c.task_id)
           /\ events' = CreateTask(CompleteEvents(events, c.task_id),
                                   test_task_id)
           /\ pending' = Spawn(pending,
                PMsg("CodeReviewer", "TestGenerator", "generate_test_request",
                     Content(f, test_task_id, c.is_fix, c.code, 0)))
    /\ Return("CodeReviewer")
    /\ UNCHANGED <<agents, running, handled, clock, subscribers, gathers, waitVars, adaptVars>>
    /\ UNCHANGED <<plan_output, outcome, config, generated_files, test_results, file_versions,
                   lwv, cpc, next_task, output_files, build_result>>

(***************************************************************************)
(* _test_generator_handler                                                 *)
(***************************************************************************)
\* generate_test_request, up to `await test_generator.write_code(...)`
TestGenBegin ==
    /\ Next_("TestGenerator", "generate_test_request")
    /\ Suspend("TestGenerator")
    /\ UNCHANGED <<agents, running, handled, clock, subscribers, gathers, nonBusVars>>

\* generate_test_request, from the test code returned to the end
TestGenDone ==
    /\ Suspended("TestGenerator", "generate_test_request")
    /\ LET c == cur["TestGenerator"].content
           f == c.file
           run_task_id == TaskId("test_run", f, 0)
       IN  /\ completed' = CompleteSet(events, completed, c.task_id)
           /\ events' = CreateTask(CompleteEvents(events, c.task_id),
                                   run_task_id)
           /\ queue' = SendToAgent(queue, agents, "TestGenerator", "TestRunner",
                           Content(f, run_task_id, FALSE, <<>>, 0),
                           "run_test_request", 0)
    /\ Return("TestGenerator")
    /\ UNCHANGED <<agents, running, handled, clock, subscribers, gathers, waitVars, adaptVars, pipeVars>>

(***************************************************************************)
(* _test_runner_handler                                                    *)
(***************************************************************************)
\* The per-file state after the first lock block (lines 436-460)
RunnerDecisionMutant(st, passed, max) ==
    IF passed THEN [st EXCEPT !.state = "done"]
    ELSE IF st.fix_count > max
      THEN [st EXCEPT !.state = "rollback_assessment"]
      ELSE [state |-> "fixing", fix_count |-> st.fix_count + 1]

RunnerDecision(st, passed, max) ==
    IF passed THEN [st EXCEPT !.state = "done"]
    ELSE IF st.fix_count >= max
      THEN [st EXCEPT !.state = "rollback_assessment"]
      ELSE [state |-> "fixing", fix_count |-> st.fix_count + 1]

\* should_fix, evaluated on the state the first lock block left (line 464)
should_fix(st, passed, max) ==
    ~passed /\ st.fix_count < max /\ st.state = "fixing"

\* The sends the handler starts: a rollback_assessment_request in the first
\* lock block (old state `was`), a fix_code_request after the second (new
\* state `now`)
RunnerSendsMutant(f, was, now, passed, max) ==
    (IF ~passed /\ was.fix_count >= max
       THEN <<PMsg("TestRunner", "RollbackAgent",
                   "rollback_assessment_request",
                   Content(f, TaskId("rollback_assess", f, 0), FALSE, <<>>,
                           was.fix_count))>>
       ELSE <<>>)
    \o (IF ~passed
          THEN <<PMsg("TestRunner", "CodeWriter", "fix_code_request",
                      Content(f, TaskId("fix", f, now.fix_count), FALSE,
                              <<>>, now.fix_count))>>
          ELSE <<>>)

RunnerSends(f, was, now, passed, max) ==
    (IF ~passed /\ was.fix_count >= max
       THEN <<PMsg("TestRunner", "RollbackAgent",
                   "rollback_assessment_request",
                   Content(f, TaskId("rollback_assess", f, 0), FALSE, <<>>,
                           was.fix_count))>>
       ELSE <<>>)
    \o (IF should_fix(now, passed, max)
          THEN <<PMsg("TestRunner", "CodeWriter", "fix_code_request",
                      Content(f, TaskId("fix", f, now.fix_count), FALSE,
                              <<>>, now.fix_count))>>
          ELSE <<>>)

\* The task ids the handler creates along with its sends
RECURSIVE CreateAll(_, _)
CreateAll(ev, msgs) ==
    IF msgs = <<>> THEN ev
    ELSE CreateAll(CreateTask(ev, Head(msgs).content.task_id), Tail(msgs))

\* run_test_request: run_python is a blocking subprocess.run, and nothing
\* else in the handler suspends, so the handler is one step
\* result["passed"]: set from the return code, and left False when
\* run_python (subprocess.TimeoutExpired) or anything else in the try block
\* raises
RunnerPassedMutant(result) == result # "failed"

RunnerPassed(result) == result = "passed"

\* _test_runner_handler after the try block: record the result, complete
\* the run's task id, save the version, decide and send
RunnerRecord(c, result) ==
    LET f == c.file
        passed == RunnerPassed(result)
        max == config.max_fix_attempts
        ts == get_task_state(task_states, f)
        now == RunnerDecision(ts[f], passed, max)
        msgs == RunnerSends(f, ts[f], now, passed, max)
    IN  /\ test_results' = DictSet(test_results, f, result)
        /\ completed' = CompleteSet(events, completed, c.task_id)
        /\ events' = CreateAll(CompleteEvents(events, c.task_id), msgs)
        /\ file_versions' = save_version(file_versions, f,
                                GeneratedOrEmpty(generated_files, f), result)
        /\ task_states' = DictSet(ts, f, now)
        /\ pending' = pending \o msgs

RunTest(result) ==
    /\ Next_("TestRunner", "run_test_request")
    /\ RunnerRecord(Head(queue["TestRunner"]).content, result)
    /\ TakeAndReturn("TestRunner")
    /\ UNCHANGED <<agents, running, handled, clock, subscribers, gathers, waitVars, adaptVars>>
    /\ UNCHANGED <<plan_output, outcome, config, generated_files, lwv, cpc, next_task, output_files,
                   build_result>>

\* The test ran and returned: rc == 0 or not
TestRun(passed) == RunTest(IF passed THEN "passed" ELSE "failed")

(***************************************************************************)
(* _rollback_handler                                                       *)
(***************************************************************************)
\* The newest version whose test_result passed (lines 494-499)
LastWorkingVersionMutant(versions) ==
    IF versions = <<>> THEN NoVersion ELSE versions[Len(versions)]

LastWorkingVersion(versions) ==
    LET ok == {i \in DOMAIN versions : Passed(versions[i].test_result)}
    IN  IF ok = {} THEN NoVersion
        ELSE versions[CHOOSE i \in ok : \A j \in ok : j <= i]

\* rollback_assessment_request, up to `await generate_response(...)`.  The
\* message carries the file_versions list itself, so the versions read are
\* those saved by now.
RollbackBegin ==
    /\ Next_("RollbackAgent", "rollback_assessment_request")
    /\ LET f == Head(queue["RollbackAgent"]).content.file
       IN  lwv' = LastWorkingVersion(file_versions[f])
    /\ Suspend("RollbackAgent")
    /\ UNCHANGED <<agents, running, handled, clock, subscribers, gathers, trackerVars, waitVars, adaptVars>>
    /\ UNCHANGED <<plan_output, outcome, config, generated_files, test_results, file_versions,
                   task_states, pending, cpc, next_task, output_files,
                   build_result>>

\* rollback_assessment_request, from the assessment returned to the end;
\* recommends: the assessment contains "rollback" or "revert"
RollbackDone(recommends) ==
    /\ Suspended("RollbackAgent", "rollback_assessment_request")
    /\ LET c == cur["RollbackAgent"].content
           f == c.file
           should_rollback == lwv # NoVersion /\ recommends
           exec_id == TaskId("rollback_exec", f, 0)
           ev1 == CompleteEvents(events, c.task_id)
           done1 == CompleteSet(events, completed, c.task_id)
           ts == get_task_state(task_states, f)
       IN  IF should_rollback
             THEN /\ events' = CompleteEvents(CreateTask(ev1, exec_id), exec_id)
                  /\ completed' = done1 \cup {exec_id}
                  /\ generated_files' = DictSet(generated_files, f, lwv.code)
                  /\ file_versions' = save_version(file_versions, f, lwv.code,
                                                   "passed_rollback")
                  /\ task_states' = DictSet(ts, f, [state |-> "rolled_back",
                                                    fix_count |-> 0])
             ELSE /\ events' = ev1
                  /\ completed' = done1
                  /\ task_states' = SetState(ts, f, "done")
                  /\ UNCHANGED <<generated_files, file_versions>>
    /\ lwv' = NoVersion
    /\ Return("RollbackAgent")
    /\ UNCHANGED <<agents, queue, running, handled, clock, subscribers, gathers, waitVars, adaptVars>>
    /\ UNCHANGED <<plan_output, outcome, config, test_results, pending, cpc, next_task,
                   output_files, build_result>>

(***************************************************************************)
(* The event loop: sends started with asyncio.create_task                  *)
(***************************************************************************)
\* The oldest started send runs: send_to_agent puts the message in the
\* receiver's mailbox
DeliverPending ==
    /\ pending # <<>>
    /\ LET m == Head(pending)
       IN  queue' = SendToAgent(queue, agents, m.sender_id, m.receiver_id,
                                m.content, m.message_type, 0)
    /\ pending' = Tail(pending)
    /\ UNCHANGED <<agents, running, lpc, cur, handled, clock, subscribers, gathers, trackerVars,
                   waitVars, adaptVars>>
    /\ UNCHANGED <<plan_output, outcome, config, generated_files, test_results, file_versions,
                   task_states, lwv, cpc, next_task, output_files,
                   build_result>>

(***************************************************************************)
(* run_build                                                               *)
(***************************************************************************)
\* The build_tasks lists run_build is called with: up to MaxTasks files,
\* possibly the same file twice (up to renaming, the first is app.py)
BuildTaskLists ==
    {t \in UNION {[1..n -> Files] : n \in 1..MaxTasks} : t[1] = "app.py"}

\* StandardBuildPipeline.__init__ and _setup_agents, then run_build up to the
\* dispatch loop of coordinate(); plan generation is switched off
\* (generate_plan = False) and timeout counts poll intervals
PipeInitFor(lists) ==
    /\ agents = Roster
    /\ queue = [a \in Roster |-> <<>>]
    /\ running = [a \in Roster |-> TRUE]
    /\ lpc = [a \in Roster |-> "polling"]
    /\ cur = [a \in Roster |-> NoMsg]
    /\ handled = [a \in Roster |-> <<>>]
    /\ clock = 0
    /\ subscribers = <<>>
    /\ gathers = <<>>
    /\ TrackerInit
    /\ AdaptIdle
    /\ WaitIdle
    /\ config \in [max_fix_attempts : 0..MaxFix, build_tasks : lists,
                   timeout : {MaxPolls}]
    /\ generated_files = <<>>
    /\ test_results = <<>>
    /\ file_versions = <<>>
    /\ task_states = <<>>
    /\ pending = <<>>
    /\ lwv = NoVersion
    /\ cpc = "dispatch"
    /\ next_task = 1
    /\ output_files = <<>>
    /\ build_result = <<>>
    /\ outcome = "running"
    /\ plan_output = <<>>

PipeInit == PipeInitFor(BuildTaskLists)

\* coordinate(): one round of the dispatch loop, up to its sleep(3)
CoordDispatch ==
    /\ cpc = "dispatch"
    /\ next_task <= Len(config.build_tasks)
    /\ LET f == config.build_tasks[next_task]
       IN  queue' = SendToAgent(queue, agents, "Coordinator", "CodeWriter",
                        Content(f, TaskId("code_gen", f, 0), FALSE, <<>>, 0),
                        "code_request", 0)
    /\ next_task' = next_task + 1
    /\ UNCHANGED <<agents, running, lpc, cur, handled, clock, subscribers, gathers, trackerVars,
                   waitVars, adaptVars>>
    /\ UNCHANGED <<plan_output, outcome, config, generated_files, test_results, file_versions,
                   task_states, pending, lwv, cpc, output_files, build_result>>

\* coordinate(): all_task_ids
all_task_ids ==
    {TaskId(k, config.build_tasks[i], 0) :
        k \in {"code_gen", "review", "test_gen", "test_run"},
        i \in DOMAIN config.build_tasks}

\* coordinate(): the call of wait_for_completion
CoordWait ==
    /\ cpc = "dispatch"
    /\ next_task > Len(config.build_tasks)
    /\ WaitCall(Roster, TRUE, all_task_ids, config.timeout)
    /\ cpc' = "waiting"
    /\ UNCHANGED <<busVars, trackerVars>>
    /\ UNCHANGED <<plan_output, outcome, config, generated_files, test_results, file_versions,
                   task_states, pending, lwv, next_task, output_files,
                   build_result>>

\* coordinate(): the save loop, the files written to output_dir
SavedFilesMutant(gf) ==
    [f \in DOMAIN gf |-> extract_file_content(f, gf[f])]

SavedFiles(gf) ==
    LET ok == {f \in DOMAIN gf :
                  is_safe_code(f, extract_file_content(f, gf[f]))}
    IN  [f \in ok |-> extract_file_content(f, gf[f])]

\* coordinate(): wait_for_completion has returned; stop_agents, the save
\* loop and the return follow without an await
CoordFinish ==
    /\ cpc = "waiting"
    /\ wpc = "done"
    /\ running' = [a \in Roster |-> FALSE]
    /\ output_files' = SavedFiles(generated_files)
    /\ build_result' = [saved |-> Cardinality(DOMAIN SavedFiles(generated_files)),
                        generated |-> Cardinality(DOMAIN generated_files)]
    /\ cpc' = "returned"
    /\ UNCHANGED <<agents, queue, lpc, cur, handled, clock, subscribers, gathers, trackerVars,
                   waitVars, adaptVars>>
    /\ UNCHANGED <<plan_output, outcome, config, generated_files, test_results, file_versions,
                   task_states, pending, lwv, next_task>>

\* run_build: message_processing, the gather of the receive loops, is done
\* when every loop has returned, or as soon as one has raised
LoopsDone ==
    \/ \A a \in DOMAIN lpc : lpc[a] = "exited"
    \/ \E a \in DOMAIN lpc : lpc[a] = "crashed"

\* run_build: gather(message_processing, coordinate(), return_exceptions=True)
\* is done and run_build returns result[1], which is the dict coordinate()
\* returned or the exception it raised, handed back as a value
RunBuildEnd ==
    /\ outcome = "running"
    /\ cpc \in {"returned", "raised"}
    /\ LoopsDone
    /\ outcome' = IF cpc = "returned" THEN "returned" ELSE "returned_exception"
    /\ UNCHANGED <<busVars, trackerVars, waitVars, adaptVars>>
    /\ UNCHANGED <<plan_output, config, generated_files, test_results,
                   file_versions, task_states, pending, lwv, cpc, next_task,
                   output_files, build_result>>

\* The dict the caller of run_build receives; "tests" is the pipeline's
\* test_results dict itself
ResultDict ==
    [saved |-> build_result.saved, generated |-> build_result.generated,
     tests |-> test_results]

\* coordinate() raises an unexpected exception: in the dispatch loop or while
\* building all_task_ids (a task without the key "task", line 816), or in the
\* save step, after stop_agents (os.makedirs, line 838)
CoordRaise ==
    /\ \/ cpc = "dispatch" /\ UNCHANGED running
       \/ /\ cpc = "waiting"
          /\ wpc = "done"
          /\ running' = [a \in Roster |-> FALSE]
    /\ cpc' = "raised"
    /\ UNCHANGED <<agents, queue, lpc, cur, handled, clock, subscribers,
                   gathers, trackerVars, waitVars, adaptVars>>
    /\ UNCHANGED <<plan_output, outcome, config, generated_files, test_results,
                   file_versions, task_states, pending, lwv, next_task,
                   output_files, build_result>>

\* Every step of run_build but the test run
LoopSteps ==
    \/ WriterCodeRequest
    \/ \E code \in Codes : WriterCodeRequestDone(code)
    \/ WriterImprove
    \/ \E code \in Codes : WriterImproveDone(code)
    \/ WriterFix
    \/ \E code \in Codes : WriterFixDone(code)
    \/ WriterIgnores
    \/ ReviewerBegin
    \/ ReviewerDone
    \/ TestGenBegin
    \/ TestGenDone
    \/ RollbackBegin
    \/ \E recommends \in BOOLEAN : RollbackDone(recommends)
    \/ DeliverPending
    \/ CoordDispatch
    \/ CoordWait
    \/ WaitCheck
    \/ WaitGrace
    \/ WaitRecheck
    \/ WaitSleep
    \/ CoordFinish
    \/ \E a \in Roster : LoopExit(a)
    \/ RunBuildEnd

Next ==
    \/ LoopSteps
    \/ \E passed \in BOOLEAN : TestRun(passed)

Spec == PipeInit /\ [][Next]_vars

\* run_build with a coordinate() that may raise, for one build task and
\* max_fix_attempts up to 1; the event loop runs whatever is ready
ErrInit ==
    /\ PipeInit
    /\ Len(config.build_tasks) = 1

ErrNext == Next \/ CoordRaise

ErrSpec == ErrInit /\ [][ErrNext]_vars /\ WF_vars(Next)

\* run_build of one task in which a test run may also time out or raise
SandboxNext == Next \/ RunTest("error")

SandboxSpec == ErrInit /\ [][SandboxNext]_vars

(***************************************************************************)
(* CrashSpec: run_build of one task in which a handler may raise once its  *)
(* LLM call has returned.  The loops are awaited with asyncio.gather, which *)
(* hands on the first exception and leaves the other loops running.        *)
(***************************************************************************)
CrashNext ==
    \/ Next
    \/ \E a \in Roster : HandlerRaise(a)

CrashSpec == ErrInit /\ [][CrashNext]_vars /\ WF_vars(CrashNext)

(***************************************************************************)
(* PlanSpec: run_build with generate_plan set, from the plan request to    *)
(* the dispatch of the code_requests                                       *)
(***************************************************************************)
PlanRoster == {"Coordinator", "PlannerAgent", "CodeWriter"}

PlanInit ==
    /\ agents = PlanRoster
    /\ queue = [a \in PlanRoster |-> <<>>]
    /\ running = [a \in PlanRoster |-> TRUE]
    /\ lpc = [a \in PlanRoster |-> "polling"]
    /\ cur = [a \in PlanRoster |-> NoMsg]
    /\ handled = [a \in PlanRoster |-> <<>>]
    /\ clock = 0
    /\ subscribers = <<>>
    /\ gathers = <<>>
    /\ TrackerInit
    /\ AdaptIdle
    /\ WaitIdle
    /\ config \in [max_fix_attempts : 0..MaxFix, build_tasks : BuildTaskLists,
                   timeout : {MaxPolls}]
    /\ generated_files = <<>>
    /\ test_results = <<>>
    /\ file_versions = <<>>
    /\ task_states = <<>>
    /\ pending = <<>>
    /\ lwv = NoVersion
    /\ cpc = "plan"
    /\ next_task = 1
    /\ output_files = <<>>
    /\ build_result = <<>>
    /\ outcome = "running"
    /\ plan_output = <<>>

\* coordinate(): create the plan task, send the generate_plan_request and
\* call wait_for_completion on the planner (30 s in polls of 0.5 s, counted
\* here as MaxPolls polls)
PlanRequest ==
    /\ cpc = "plan"
    /\ events' = CreateTask(events, "generate_plan")
    /\ queue' = SendToAgent(queue, agents, "Coordinator", "PlannerAgent",
                     [task_id |-> "generate_plan",
                      build_tasks |-> config.build_tasks],
                     "generate_plan_request", 0)
    /\ WaitCall({"PlannerAgent"}, TRUE, {"generate_plan"}, MaxPolls)
    /\ cpc' = "plan_wait"
    /\ UNCHANGED <<agents, running, lpc, cur, handled, clock, subscribers,
                   gathers, completed>>
    /\ UNCHANGED <<plan_output, outcome, config, generated_files, test_results,
                   file_versions, task_states, pending, lwv, next_task,
                   output_files, build_result>>

\* _planner_handler, up to `await planner.generate_response(plan_prompt)`
PlannerBegin ==
    /\ Next_("PlannerAgent", "generate_plan_request")
    /\ Suspend("PlannerAgent")
    /\ UNCHANGED <<agents, running, handled, clock, subscribers, gathers>>
    /\ UNCHANGED nonBusVars

\* _planner_handler, from the plan text to the end
PlannerDone ==
    /\ Suspended("PlannerAgent", "generate_plan_request")
    /\ plan_output' = [plan |-> "PLAN.md", ready |-> TRUE]
    /\ events' = CompleteEvents(events, cur["PlannerAgent"].content.task_id)
    /\ completed' = CompleteSet(events, completed,
                                cur["PlannerAgent"].content.task_id)
    /\ Return("PlannerAgent")
    /\ UNCHANGED <<agents, queue, running, handled, clock, subscribers, gathers,
                   waitVars, adaptVars>>
    /\ UNCHANGED <<outcome, config, generated_files, test_results,
                   file_versions, task_states, pending, lwv, cpc, next_task,
                   output_files, build_result>>

\* coordinate(): wait_for_completion has returned, its value is dropped and
\* the dispatch loop starts
PlanWaitReturn ==
    /\ cpc = "plan_wait"
    /\ wpc = "done"
    /\ cpc' = "dispatch"
    /\ UNCHANGED <<busVars, trackerVars, waitVars, adaptVars>>
    /\ UNCHANGED <<plan_output, outcome, config, generated_files, test_results,
                   file_versions, task_states, pending, lwv, next_task,
                   output_files, build_result>>

PlanNext ==
    \/ PlanRequest
    \/ WaitCheck
    \/ WaitGrace
    \/ WaitRecheck
    \/ WaitSleep
    \/ PlannerBegin
    \/ PlannerDone
    \/ PlanWaitReturn
    \/ CoordDispatch

PlanSpec == PlanInit /\ [][PlanNext]_vars

(***************************************************************************)
(* RepeatSpec: run_build of a list that names one file MaxRepeats times,   *)
(* with no fix budget, for as long as coordinate() is in its dispatch loop *)
(* (one code_request every 3 seconds)                                      *)
(***************************************************************************)
MaxRepeats == 3

RepeatInit ==
    /\ PipeInitFor({[i \in 1..MaxRepeats |-> "app.py"]})
    /\ config.max_fix_attempts = 0

RepeatNext == Next /\ cpc' = "dispatch"

RepeatSpec == RepeatInit /\ [][RepeatNext]_vars

(***************************************************************************)
(* SubprocessSpec: run_build of one task with the test run in two steps.   *)
(* run_python is subprocess.run, a blocking call made on the event loop's  *)
(* thread: from the call to its return no coroutine is scheduled.          *)
(***************************************************************************)
\* The test runner's handler is inside run_python
Blocked == lpc["TestRunner"] = "subprocess"

\* _test_runner_handler up to the call of run_python
RunStart ==
    /\ ~Blocked
    /\ Next_("TestRunner", "run_test_request")
    /\ queue' = [queue EXCEPT !["TestRunner"] = Tail(@)]
    /\ cur' = [cur EXCEPT !["TestRunner"] = Head(queue["TestRunner"])]
    /\ lpc' = [lpc EXCEPT !["TestRunner"] = "subprocess"]
    /\ UNCHANGED <<agents, running, handled, clock, subscribers, gathers>>
    /\ UNCHANGED nonBusVars

\* run_python returns or raises, and the handler runs to its end
RunFinish(result) ==
    /\ Blocked
    /\ RunnerRecord(cur["TestRunner"].content, result)
    /\ Return("TestRunner")
    /\ UNCHANGED <<agents, queue, running, handled, clock, subscribers, gathers,
                   waitVars, adaptVars>>
    /\ UNCHANGED <<plan_output, outcome, config, generated_files, lwv, cpc, next_task, output_files,
                   build_result>>

SubprocessNext ==
    \/ ~Blocked /\ LoopSteps
    \/ RunStart
    \/ \E result \in {"passed", "failed", "error"} : RunFinish(result)

SubprocessSpec == ErrInit /\ [][SubprocessNext]_vars

(***************************************************************************)
(* AdaptiveBuildPipeline._parse_task_response (pipelines/adaptive_build.py) *)
(*                                                                         *)
(* A response is a sequence of tokens: the brackets of JSON arrays, a      *)
(* well-formed task object, a comma, the opening fence tagged json, a bare *)
(* fence and a run of prose.  White space is left out.                     *)
(***************************************************************************)
MaxLen == 6
Tokens == {"[", "]", "{task}", ",", "fence_json", "fence", "prose"}
Responses == UNION {[1..n -> Tokens] : n \in 0..MaxLen}

\* json.loads on text that starts at token i: the index after the value
\* that starts there, 0 when there is none
RECURSIVE ParseValue(_, _), ParseElems(_, _)
ParseValue(s, i) ==
    IF i > Len(s) THEN 0
    ELSE IF s[i] = "{task}" THEN i + 1
    ELSE IF s[i] = "["
      THEN IF i + 1 <= Len(s) /\ s[i + 1] = "]" THEN i + 2
           ELSE ParseElems(s, i + 1)
    ELSE 0

ParseElems(s, i) ==
    LET v == ParseValue(s, i)
    IN  IF v = 0 \/ v > Len(s) THEN 0
        ELSE IF s[v] = "," THEN ParseElems(s, v + 1)
        ELSE IF s[v] = "]" THEN v + 1
        ELSE 0

\* json.loads(json_str) does not raise JSONDecodeError
Loads(s) == s # <<>> /\ ParseValue(s, 1) = Len(s) + 1

\* The list json.loads returns for an array: its elements
TasksOf(s) == SubSeq(s, 2, Len(s) - 1)

Least(S) == CHOOSE x \in S : \A y \in S : x <= y

\* re.search of the fenced pattern: group(1), or <<>> without a match.  The
\* closing fence of the pattern also matches the start of a tagged fence.
FencedSpan(r) ==
    LET closes(i) == {j \in i + 2 .. Len(r) - 1 :
                        r[j] = "]" /\ r[j + 1] \in {"fence", "fence_json"}}
        opens == {i \in 1 .. Len(r) - 1 :
                    /\ r[i] = "fence_json"
                    /\ r[i + 1] = "["
                    /\ closes(i) # {}}
    IN  IF opens = {} THEN <<>>
        ELSE SubSeq(r, Least(opens) + 1, Least(closes(Least(opens))))

\* re.search of the non-greedy bracket pattern: group(0), or <<>>
FirstSpan(r) ==
    LET opens == {i \in DOMAIN r : r[i] = "["}
        closes == {j \in DOMAIN r : r[j] = "]" /\ j > Least(opens)}
    IN  IF opens = {} \/ closes = {} THEN <<>>
        ELSE SubSeq(r, Least(opens), Least(closes))

\* The salvage: response[start:end+1] with trailing commas removed, or <<>>
\* when a bracket is missing
SalvageSpan(r) ==
    LET opens == {i \in DOMAIN r : r[i] = "["}
        closes == {j \in DOMAIN r : r[j] = "]"}
        cut == SubSeq(r, Least(opens), CHOOSE j \in closes :
                                          \A k \in closes : k <= j)
        keep == {i \in DOMAIN cut :
                    ~(cut[i] = "," /\ i < Len(cut) /\ cut[i + 1] = "]")}
        F[i \in 0..Len(cut)] ==
            IF i = 0 THEN <<>>
            ELSE IF i \in keep THEN Append(F[i - 1], cut[i]) ELSE F[i - 1]
    IN  IF opens = {} \/ closes = {} THEN <<>> ELSE F[Len(cut)]

\* The except branch
Salvage(r) == IF Loads(SalvageSpan(r)) THEN TasksOf(SalvageSpan(r)) ELSE <<>>

_parse_task_response(r) ==
    IF FencedSpan(r) # <<>>
      THEN IF Loads(FencedSpan(r)) THEN TasksOf(FencedSpan(r)) ELSE Salvage(r)
    ELSE IF FirstSpan(r) # <<>>
      THEN IF Loads(FirstSpan(r)) THEN TasksOf(FirstSpan(r)) ELSE Salvage(r)
    ELSE <<>>

\* ParseSpec: _parse_task_response applied to every response of the bound
ParseInit ==
    /\ agents = {}
    /\ queue = <<>>
    /\ running = <<>>
    /\ lpc = <<>>
    /\ cur = <<>>
    /\ handled = <<>>
    /\ clock = 0
    /\ subscribers = <<>>
    /\ gathers = <<>>
    /\ TrackerInit
    /\ NoBuild
    /\ WaitIdle
    /\ response \in Responses
    /\ parsed = <<>>
    /\ inferred_tasks = <<>>
    /\ apc = "parse"
    /\ ielapsed = 0
    /\ tasks = <<>>

\* tasks = self._parse_task_response(response)
ParseCall ==
    /\ apc = "parse"
    /\ parsed' = _parse_task_response(response)
    /\ apc' = "parsed"
    /\ UNCHANGED <<response, inferred_tasks, ielapsed, tasks>>
    /\ UNCHANGED <<busVars, trackerVars, waitVars, pipeVars>>

ParseSpec == ParseInit /\ [][ParseCall]_vars

(***************************************************************************)
(* AdaptiveBuildPipeline.run_adaptive_build (pipelines/adaptive_build.py)  *)
(***************************************************************************)
MaxIdeation == 2
AdaptIds == {"Coordinator", "IdeationAgent"}

\* AdaptiveBuildPipeline.__init__: agents registered and started, no
\* receive loop running yet
AdaptInit ==
    /\ agents = AdaptIds
    /\ queue = [a \in AdaptIds |-> <<>>]
    /\ running = [a \in AdaptIds |-> TRUE]
    /\ lpc = [a \in AdaptIds |-> "none"]
    /\ cur = [a \in AdaptIds |-> NoMsg]
    /\ handled = [a \in AdaptIds |-> <<>>]
    /\ clock = 0
    /\ subscribers = <<>>
    /\ gathers = <<>>
    /\ TrackerInit
    /\ NoBuild
    /\ WaitIdle
    /\ AdaptIdle

\* run_adaptive_build -> infer_build_tasks, up to the first sleep of
\* coordinate_ideation: the IdeationAgent's receive loop is started
InferCall ==
    /\ apc = "idle"
    /\ apc' = "sleep"
    /\ lpc' = [lpc EXCEPT !["IdeationAgent"] = "polling"]
    /\ UNCHANGED <<response, parsed, inferred_tasks, ielapsed, tasks>>
    /\ UNCHANGED <<agents, queue, running, cur, handled, clock, subscribers,
                   gathers, trackerVars, waitVars, pipeVars>>

\* coordinate_ideation: the request is sent, start_time is taken
InferSend ==
    /\ apc = "sleep"
    /\ queue' = SendToAgent(queue, agents, "Coordinator", "IdeationAgent",
                            "description", "infer_tasks_request", 0)
    /\ apc' = "poll"
    /\ ielapsed' = 0
    /\ UNCHANGED <<response, parsed, inferred_tasks, tasks>>
    /\ UNCHANGED <<agents, running, lpc, cur, handled, clock, subscribers,
                   gathers, trackerVars, waitVars, pipeVars>>

\* infer_build_tasks returns ts: the finally clause stops and cancels the
\* IdeationAgent's loop, then run_adaptive_build raises ValueError on an
\* empty list, and otherwise stops the agents, creates the
\* StandardBuildPipeline and calls run_build
InferReturn(ts) ==
    /\ tasks' = ts
    /\ lpc' = [lpc EXCEPT !["IdeationAgent"] = "cancelled"]
    /\ cur' = [cur EXCEPT !["IdeationAgent"] = NoMsg]
    /\ IF ts = <<>>
         THEN /\ apc' = "raised"
              /\ running' = [running EXCEPT !["IdeationAgent"] = FALSE]
              /\ UNCHANGED cpc
         ELSE /\ apc' = "build"
              /\ running' = [a \in AdaptIds |-> FALSE]
              /\ cpc' = "dispatch"

\* One pass of the polling loop of coordinate_ideation
InferPollMutant ==
    /\ apc = "poll"
    /\ IF inferred_tasks # <<>> \/ ielapsed > MaxIdeation
         THEN /\ tasks' = inferred_tasks
              /\ lpc' = [lpc EXCEPT !["IdeationAgent"] = "cancelled"]
              /\ cur' = [cur EXCEPT !["IdeationAgent"] = NoMsg]
              /\ apc' = "build"
              /\ running' = [a \in AdaptIds |-> FALSE]
              /\ cpc' = "dispatch"
              /\ UNCHANGED ielapsed
         ELSE /\ ielapsed' = ielapsed + 1
              /\ UNCHANGED <<apc, tasks, lpc, cur, running, cpc>>
    /\ UNCHANGED <<response, parsed, inferred_tasks>>
    /\ UNCHANGED <<agents, queue, handled, clock, subscribers, gathers,
                   trackerVars, waitVars>>
    /\ UNCHANGED <<plan_output, outcome, config, generated_files, test_results,
                   file_versions, task_states, pending, lwv, next_task,
                   output_files, build_result>>

InferPoll ==
    /\ apc = "poll"
    /\ IF inferred_tasks # <<>>
         THEN InferReturn(inferred_tasks) /\ UNCHANGED ielapsed
         ELSE IF ielapsed > MaxIdeation
           THEN InferReturn(<<>>) /\ UNCHANGED ielapsed
           ELSE /\ ielapsed' = ielapsed + 1
                /\ UNCHANGED <<apc, tasks, lpc, cur, running, cpc>>
    /\ UNCHANGED <<response, parsed, inferred_tasks>>
    /\ UNCHANGED <<agents, queue, handled, clock, subscribers, gathers,
                   trackerVars, waitVars>>
    /\ UNCHANGED <<plan_output, outcome, config, generated_files, test_results,
                   file_versions, task_states, pending, lwv, next_task,
                   output_files, build_result>>

\* _ideation_handler, up to `await ideation_agent.generate_response(...)`
IdeationBegin ==
    /\ Next_("IdeationAgent", "infer_tasks_request")
    /\ Suspend("IdeationAgent")
    /\ UNCHANGED <<agents, running, handled, clock, subscribers, gathers>>
    /\ UNCHANGED nonBusVars

\* _ideation_handler, from the response to the end
IdeationDone(resp) ==
    /\ Suspended("IdeationAgent", "infer_tasks_request")
    /\ response' = resp
    /\ parsed' = _parse_task_response(resp)
    /\ inferred_tasks' = IF _parse_task_response(resp) # <<>>
                           THEN _parse_task_response(resp)
                           ELSE inferred_tasks
    /\ events' = CompleteEvents(events, "infer_build_tasks")
    /\ completed' = CompleteSet(events, completed, "infer_build_tasks")
    /\ Return("IdeationAgent")
    /\ UNCHANGED <<apc, ielapsed, tasks>>
    /\ UNCHANGED <<agents, queue, running, handled, clock, subscribers,
                   gathers, waitVars, pipeVars>>

AdaptNext ==
    \/ InferCall
    \/ InferSend
    \/ InferPoll
    \/ IdeationBegin
    \/ \E resp \in {r \in Responses : Len(r) <= 3} : IdeationDone(resp)
    \/ HandlerRaise("IdeationAgent")

AdaptSpec == AdaptInit /\ [][AdaptNext]_vars

(***************************************************************************)
(* C1                                                                      *)
(***************************************************************************)
AllMessages ==
    {Message(s, r, c, t, ts) :
        s \in BusIds, r \in BusIds, c \in Contents, t \in MsgTypes,
        ts \in 1..MaxMsgs}

InBox(a, m) == \E i \in DOMAIN queue[a] : queue[a][i] = m
InvokedOn(a, m) == \E i \in DOMAIN handled[a] : handled[a][i] = m
LoopLive(a) == lpc[a] \in {"polling", "handling"}

\* C1 as stated: every message sent with send_to_agent while sender and
\* receiver are registered is put in the receiver's mailbox, and the
\* receiver's handler is eventually invoked on it, with its content and
\* message_type.
C1_SentIsEventuallyHandled ==
    \A m \in AllMessages :
        InBox(m.receiver_id, m) ~> InvokedOn(m.receiver_id, m)

\* C1 as amended: the message is in the receiver's mailbox when
\* send_to_agent returns, and the receiver's handler is eventually invoked on
\* it unless the receiver's receive loop is not running (never started,
\* exited after stop, or ended by an exception of a handler).
C1_SentIsHandledWhileLoopLives ==
    /\ [][\A s \in BusIds, r \in BusIds, c \in Contents, t \in MsgTypes :
            (send_to_agent(s, r, c, t) /\ s \in agents /\ r \in agents)
                => queue'[r] = Append(queue[r], Message(s, r, c, t, clock'))]_vars
    /\ \A m \in AllMessages :
        InBox(m.receiver_id, m)
            ~> (InvokedOn(m.receiver_id, m) \/ ~LoopLive(m.receiver_id))

\* C1 witness: a message sent over the bus between two registered agents has
\* been handled by the receiver and a later one waits behind it.
C1_Witness ==
    \E m \in AllMessages :
        /\ m.sender_id # m.receiver_id
        /\ {m.sender_id, m.receiver_id} \subseteq agents
        /\ InvokedOn(m.receiver_id, m)
        /\ lpc[m.receiver_id] = "polling"
        /\ queue[m.receiver_id] # <<>>

(***************************************************************************)
(* C6, C7, C8 (WaitSpec)                                                   *)
(***************************************************************************)
\* C6 as stated: a task id that was created, or re-created, and not completed
\* since (its event is unset) is not counted as completed by
\* wait_for_completion, which reads TaskTracker.completed.
C6_RecreatedTaskIsNotCompleted ==
    \A id \in DOMAIN events : ~events[id] => id \notin completed

C8_ReturnValueIsJustified ==
    /\ [](wpc = "done" => wresult \in {"true", "false"})
    /\ [][/\ (wresult = "none" /\ wresult' = "true")
               => \/ wpc = "grace" /\ TrackerGiven /\ AllTasksDone
                  \/ wpc = "qwait" /\ AllEmpty
          /\ (wpc # "grace" /\ wpc' = "grace") => (TrackerGiven /\ AllTasksDone)
          /\ (wpc # "qwait" /\ wpc' = "qwait") => AllEmpty
          /\ (wresult = "none" /\ wresult' = "false")
               => elapsed >= wcfg.timeout]_vars

\* C8 witness: the call returned true over the mailboxes, after at least one
\* poll interval, while a named task id was still not completed.
C8_Witness ==
    /\ wpc = "done"
    /\ wresult = "true"
    /\ elapsed >= 1
    /\ TrackerGiven
    /\ ~AllTasksDone
    /\ wcfg.agents = BusIds

(***************************************************************************)
(* C2, C3, C4, C5, C9, C10 (Spec)                                          *)
(***************************************************************************)
\* C2: in every reachable state of a build, every file's fix_count is at
\* least 0 and at most max_fix_attempts.
C2_FixCountWithinBounds ==
    \A f \in DOMAIN task_states :
        /\ task_states[f].fix_count >= 0
        /\ task_states[f].fix_count <= config.max_fix_attempts

\* C2 witness: the fix loop has raised a file's fix_count, step by step, to a
\* max_fix_attempts of more than one, and the file is under test again.
C2_Witness ==
    \E f \in DOMAIN task_states :
        /\ config.max_fix_attempts > 1
        /\ task_states[f].fix_count = config.max_fix_attempts
        /\ task_states[f].state = "fixing"

\* Nothing is left to run for the build's files: every code_request has been
\* dispatched, no send is waiting, every mailbox is empty, no handler is
\* suspended, and the agents are still running
Quiescent ==
    /\ next_task > Len(config.build_tasks)
    /\ pending = <<>>
    /\ \A a \in DOMAIN queue :
          queue[a] = <<>> /\ lpc[a] = "polling" /\ running[a]

\* The file was tested and none of its test runs passed
AllRunsFailed(f) ==
    /\ f \in DOMAIN test_results
    /\ \A i \in DOMAIN file_versions[f] :
          ~Passed(file_versions[f][i].test_result)

\* C3 as stated, in its finite form: a file whose test runs all failed is
\* not left behind without having reached rollback_assessment (its
\* rollback_assess task id is created when the state is set) once the agents,
\* still running, have nothing more to do.
C3_FailingFileReachesAssessment ==
    \A f \in Files :
        (Quiescent /\ AllRunsFailed(f))
            => TaskId("rollback_assess", f, 0) \in DOMAIN events

\* The code a review_request or a generate_test_request carries passes the
\* safety scan
CarriesSafeCode(m) ==
    m.message_type \in {"review_request", "generate_test_request"}
        => is_safe_code(m.content.file, m.content.code)

\* C4 as stated: nothing that fails the safety scan is stored in
\* generated_files, sent for review or sent for test generation.
C4_OnlyScannedContentIsKept ==
    /\ \A f \in DOMAIN generated_files : is_safe_code(f, generated_files[f])
    /\ \A i \in DOMAIN pending : CarriesSafeCode(pending[i])
    /\ \A a \in DOMAIN queue :
          /\ CarriesSafeCode(cur[a])
          /\ \A i \in DOMAIN queue[a] : CarriesSafeCode(queue[a][i])

\* C5 as stated: once the save step has run, no handler is in the middle of a
\* message, and no later step changes generated_files, test_results or a
\* file's state.
C5_AgentsStoppedAtSave ==
    /\ [](cpc = "returned" => \A a \in DOMAIN lpc : lpc[a] # "handling")
    /\ [][cpc = "returned"
            => UNCHANGED <<generated_files, test_results, task_states>>]_vars

\* The test runner handles a run_test_request for file f and the run fails
FailedRunOf(f) ==
    /\ Next_("TestRunner", "run_test_request")
    /\ Head(queue["TestRunner"]).content.file = f
    /\ queue'["TestRunner"] = Tail(queue["TestRunner"])
    /\ f \in DOMAIN test_results'
    /\ test_results'[f] = "failed"

\* C9: a failed test run of a file whose fix_count is max_fix_attempts or
\* more sets the state to rollback_assessment and not to fixing, leaves
\* fix_count as it was and starts exactly one send, a
\* rollback_assessment_request for the file to the rollback agent.
C9_ExhaustedFailureRoutesToRollback ==
    [][\A f \in DOMAIN task_states :
          (FailedRunOf(f)
             /\ task_states[f].fix_count >= config.max_fix_attempts)
            => /\ task_states'[f].state = "rollback_assessment"
               /\ task_states'[f].fix_count = task_states[f].fix_count
               /\ Len(pending') = Len(pending) + 1
               /\ SubSeq(pending', 1, Len(pending)) = pending
               /\ LET m == pending'[Len(pending')]
                  IN  /\ m.message_type = "rollback_assessment_request"
                      /\ m.sender_id = "TestRunner"
                      /\ m.receiver_id = "RollbackAgent"
                      /\ m.content.file = f]_vars

\* C9 witness: with max_fix_attempts above 0, a test run failed for a file
\* whose fix_count had reached it; the file is in rollback_assessment and the
\* request to the rollback agent has been started.
C9_Witness ==
    \E f \in DOMAIN task_states :
        /\ config.max_fix_attempts > 0
        /\ task_states[f].state = "rollback_assessment"
        /\ task_states[f].fix_count = config.max_fix_attempts
        /\ test_results[f] = "failed"
        /\ \E i \in DOMAIN pending :
              /\ pending[i].message_type = "rollback_assessment_request"
              /\ pending[i].content.file = f

\* C10 as stated: no step takes a file's state from done to generating.
C10_DoneNeverRegenerates ==
    [][\A f \in DOMAIN task_states :
          task_states[f].state = "done"
            => task_states'[f].state # "generating"]_vars

(***************************************************************************)
(* C11 (Spec)                                                              *)
(***************************************************************************)
\* The rollback handler finishes the rollback_assessment_request for file f
RollbackFinishes(f) ==
    /\ Suspended("RollbackAgent", "rollback_assessment_request")
    /\ cur["RollbackAgent"].content.file = f
    /\ lpc'["RollbackAgent"] = "polling"

\* No saved version of f has a test result that passed
NoPassingVersion(f) ==
    \A i \in DOMAIN file_versions[f] :
        ~Passed(file_versions[f][i].test_result)

\* C11: when the rollback handler finishes a rollback_assessment_request for
\* a file whose version history holds no entry with a passed test result, the
\* file's state becomes done and not rolled_back, and generated_files and
\* the version history stay as they were, whatever the assessment says.
C11_NoPassingVersionEndsDone ==
    [][\A f \in DOMAIN file_versions :
          (RollbackFinishes(f) /\ NoPassingVersion(f))
            => /\ task_states'[f].state = "done"
               /\ generated_files' = generated_files
               /\ file_versions' = file_versions]_vars

\* C11 witness: the assessment of a file with saved versions, none of them
\* passed, has ended; the file is done with the fix_count it had.
C11_Witness ==
    \E f \in DOMAIN file_versions :
        /\ NoPassingVersion(f)
        /\ Len(file_versions[f]) >= 2
        /\ TaskId("rollback_assess", f, 0) \in completed
        /\ task_states[f].state = "done"
        /\ lpc["RollbackAgent"] = "polling"

(***************************************************************************)
(* C12 (Spec)                                                              *)
(***************************************************************************)
\* The handler of agent a, suspended on a message of type t for file f,
\* resumes and makes the last write of f's TaskState
LastWrite(a, t, f) ==
    /\ Suspended(a, t)
    /\ cur[a].content.file = f
    /\ lpc'[a] = "polling"
    /\ task_states'[f] # task_states[f]

\* C12 as stated, seen from the handler that has a transition in flight:
\* between its first read of a file's TaskState (the lock block before its
\* LLM call) and its last write (the lock block after it), no other handler
\* reads and writes that TaskState, so the writer finds the state generating
\* it left and the reviewer of a first review the state reviewing it left.
C12_OneTransitionInFlight ==
    [][\A f \in DOMAIN task_states :
          /\ (LastWrite("CodeWriter", "code_request", f)
                \/ LastWrite("CodeWriter", "fix_code_request", f))
               => task_states[f].state = "generating"
          /\ (LastWrite("CodeReviewer", "review_request", f)
                /\ ~cur["CodeReviewer"].content.is_fix)
               => task_states[f].state = "reviewing"]_vars

(***************************************************************************)
(* C13 (ErrSpec), C14 (Spec)                                               *)
(***************************************************************************)
\* C13 as stated: once coordinate() has raised, the agents get stopped and
\* run_build ends by raising the exception to its caller.
C13_ExceptionStopsAndReraises ==
    (cpc = "raised")
        ~> (outcome = "raised" /\ \A a \in DOMAIN running : ~running[a])

\* coordinate() goes on after a wait_for_completion that timed out
AfterTimeout ==
    /\ cpc = "waiting"
    /\ wpc = "done"
    /\ wresult = "false"
    /\ cpc' # cpc

\* C14: after a global wait that timed out, coordinate() stops every agent,
\* writes exactly the generated files whose extracted content passes the
\* safety scan, and returns the counts generated and saved; run_build ends
\* by returning that result, with its tests map, and never by an exception.
C14_TimeoutStillReturnsResult ==
    /\ [][AfterTimeout
            => /\ cpc' = "returned"
               /\ \A a \in DOMAIN running : ~running'[a]
               /\ DOMAIN output_files' =
                     {f \in DOMAIN generated_files :
                         is_safe_code(f, extract_file_content(f,
                                             generated_files[f]))}
               /\ \A f \in DOMAIN output_files' :
                     output_files'[f] =
                         extract_file_content(f, generated_files[f])
               /\ build_result'.generated = Cardinality(DOMAIN generated_files)
               /\ build_result'.saved = Cardinality(DOMAIN output_files')]_vars
    /\ []((wresult = "false" /\ outcome # "running")
            => /\ outcome = "returned"
               /\ DOMAIN ResultDict = {"generated", "saved", "tests"}
               /\ ResultDict.tests = test_results)

\* C14 witness: run_build has returned after a timed-out wait, with one file
\* generated and none saved because its content fails the scan, and a test
\* result in the tests map.
C14_Witness ==
    /\ outcome = "returned"
    /\ wresult = "false"
    /\ build_result.generated = 1
    /\ build_result.saved = 0
    /\ DOMAIN ResultDict.tests # {}

(***************************************************************************)
(* C15 (BusSpec)                                                           *)
(***************************************************************************)
\* C15: a send_to_agent call whose sender id or receiver id is not
\* registered returns normally and leaves every mailbox, the registry, the
\* subscriptions and every agent as they were.
C15_UnknownIdIsSilentNoOp ==
    [][\A s \in BusIds, r \in BusIds, c \in Contents, t \in MsgTypes :
          (send_to_agent(s, r, c, t) /\ (s \notin agents \/ r \notin agents))
            => UNCHANGED <<agents, queue, running, lpc, cur, handled,
                           subscribers, gathers>>]_vars

\* C15 witness: with one of the two agents registered, every send_to_agent
\* call made so far was dropped: no mailbox holds a message, no handler was
\* invoked.
C15_Witness ==
    /\ clock = MaxMsgs
    /\ Cardinality(agents) = 1
    /\ \A a \in BusIds : queue[a] = <<>> /\ handled[a] = <<>>

(***************************************************************************)
(* C16, C17, C18 (FanoutSpec)                                              *)
(***************************************************************************)
\* The batch of puts the step has started, if any
NewBatch == IF gathers' = gathers THEN <<>> ELSE gathers'[Len(gathers')]

\* The messages of a batch addressed to agent a, in order
RECURSIVE MsgsFor(_, _)
MsgsFor(batch, a) ==
    IF batch = <<>> THEN <<>>
    ELSE (IF Head(batch).receiver_id = a THEN <<Head(batch)>> ELSE <<>>)
           \o MsgsFor(Tail(batch), a)

\* The receivers of a batch, in order
Receivers(batch) == [i \in DOMAIN batch |-> batch[i].receiver_id]

\* The puts of a gather add to each mailbox the messages of the batch that
\* are addressed to it, and nothing else
PutsDeliver ==
    (gathers # <<>> /\ gathers' = Tail(gathers))
        => \A a \in FanIds :
              queue'[a] = queue[a] \o MsgsFor(Head(gathers), a)

\* C16: a broadcast_message call by a registered sender builds exactly one
\* message, with the content and type given, for every agent registered at
\* the call other than the sender, one for the sender exactly if
\* exclude_sender is false, and none for anyone else; when the call returns,
\* its puts have added exactly these messages to the mailboxes.
C16_BroadcastReachesEveryoneOnce ==
    [][/\ \A s \in Senders, c \in Contents, ex \in BOOLEAN :
            (broadcast_message(s, c, "broadcast", ex) /\ s \in agents)
              => /\ \A a \in FanIds :
                      Len(MsgsFor(NewBatch, a)) =
                          IF a \in agents /\ (a # s \/ ~ex) THEN 1 ELSE 0
                 /\ \A i \in DOMAIN NewBatch :
                      NewBatch[i] = Message(s, NewBatch[i].receiver_id, c,
                                            "broadcast", clock')
                 /\ gathers' = StartGather(gathers, NewBatch)
       /\ PutsDeliver]_vars

\* C16 witness: a broadcast with exclude_sender false to three registered
\* agents has returned: each mailbox, the sender's too, holds its message.
C16_Witness ==
    /\ agents = FanIds
    /\ \E ts \in 1..MaxMsgs :
          \A a \in FanIds :
              \E i \in DOMAIN queue[a] :
                  /\ queue[a][i].message_type = "broadcast"
                  /\ queue[a][i].timestamp = ts

\* C17 as stated: a publish_to_topic call by a registered sender builds
\* exactly one message of type "topic:<topic>" for every agent subscribed to
\* the topic except the sender, in subscription order, and none for anyone
\* else; for a topic nobody subscribed to it builds none.
C17_PublishReachesEverySubscriber ==
    [][\A s \in Senders, topic \in Topics, c \in Contents :
          (publish_to_topic(s, topic, c) /\ s \in agents)
            => Receivers(NewBatch) =
                  IF topic \in DOMAIN subscribers
                    THEN Filter(subscribers[topic], FanIds \ {s})
                    ELSE <<>>]_vars

\* C17 as amended: the messages are built for the subscribers of the topic
\* that are registered when publish_to_topic is called, the sender excepted:
\* one each, however often the agent subscribed, in subscription order, with
\* the content given and the type "topic:<topic>"; a subscriber that is not
\* (or no longer) registered gets none; when the call returns, its puts have
\* added exactly these messages to the mailboxes.
C17_PublishReachesRegisteredSubscribers ==
    [][/\ \A s \in Senders, topic \in Topics, c \in Contents :
            (publish_to_topic(s, topic, c) /\ s \in agents)
              => /\ Receivers(NewBatch) =
                      IF topic \in DOMAIN subscribers
                        THEN Filter(subscribers[topic], agents \ {s})
                        ELSE <<>>
                 /\ \A i \in DOMAIN NewBatch :
                      NewBatch[i] = Message(s, NewBatch[i].receiver_id, c,
                                            TopicType(topic), clock')
                 /\ UNCHANGED <<queue, subscribers>>
       /\ \A a \in FanIds, topic \in Topics :
            subscribe_to_topic(a, topic)
              => Cardinality({i \in DOMAIN subscribers'[topic] :
                                 subscribers'[topic][i] = a}) = 1
       /\ PutsDeliver]_vars

\* C17 witness: the sender and two other registered agents are subscribed
\* to the topic, a publish has returned, the two others hold its message
\* and the sender's mailbox stayed empty.
C17_Witness ==
    /\ "news" \in DOMAIN subscribers
    /\ Range(subscribers["news"]) = FanIds
    /\ agents = FanIds
    /\ queue["alice"] = <<>> /\ handled["alice"] = <<>>
    /\ \E ts \in 1..MaxMsgs :
          \A a \in FanIds \ {"alice"} :
              \E i \in DOMAIN queue[a] :
                  /\ queue[a][i].message_type = "topic:news"
                  /\ queue[a][i].timestamp = ts

\* The messages agent a holds: those its handler was invoked on, then those
\* waiting in its mailbox
Held(a) == handled[a] \o queue[a]

\* C18: a handler is invoked only on the message its agent's loop takes from
\* the head of the agent's own mailbox, unchanged, and the message leaves the
\* mailbox with that; send_message and send_to_agent put into the receiver's
\* mailbox a message with the content and type given (broadcast_message and
\* publish_to_topic: C16, C17, and the puts of their batches here); every
\* message an agent holds is addressed to it and no message is held, or was
\* handled, twice.
C18_HandledOnceByItsReceiver ==
    /\ [][/\ \A a \in FanIds :
               handled'[a] # handled[a]
                 => /\ CanGet(a)
                    /\ handled'[a] = Append(handled[a], Head(queue[a]))
                    /\ cur'[a] = Head(queue[a])
                    /\ queue'[a] = Tail(queue[a])
          /\ \A s \in Senders, r \in FanIds, c \in Contents :
               \/ send_to_agent(s, r, c, "default") /\ {s, r} \subseteq agents
               \/ send_message(s, r, c, "default")
               => queue'[r] = Append(queue[r],
                                     Message(s, r, c, "default", clock'))
          /\ PutsDeliver]_vars
    /\ [](\A a \in FanIds :
            /\ \A i \in DOMAIN Held(a) : Held(a)[i].receiver_id = a
            /\ \A i \in DOMAIN Held(a), j \in DOMAIN Held(a) :
                  Held(a)[i] = Held(a)[j] => i = j)

\* C18 witness: one agent's handler was invoked on two messages, a direct one
\* and one of a broadcast or topic, and another agent's handler on the second
\* one's sibling.
C18_Witness ==
    /\ Len(handled["bob"]) = 2
    /\ handled["bob"][1].message_type = "default"
    /\ handled["bob"][2].message_type # "default"
    /\ Len(handled["carol"]) = 1
    /\ handled["carol"][1].timestamp = handled["bob"][2].timestamp
    /\ queue["bob"] = <<>> /\ queue["carol"] = <<>>

(***************************************************************************)
(* C19                                                                     *)
(***************************************************************************)
\* A step in which complete_task(id) sets the Event stored under id
CompleteCalled(id) ==
    /\ id \in DOMAIN events
    /\ ~events[id]
    /\ id \in DOMAIN events'
    /\ events'[id]

\* C19: a pending wait_for_task(id, timeout) returns true if
\* complete_task(id) is called before its timeout and false otherwise, and
\* never anything else, however create_task and complete_task interleave
\* with it; wait_for_all_tasks returns true exactly when every per-id wait
\* returned true.
C19_WaitReturnsTrueIffCompleted ==
    /\ [](\A i \in DOMAIN waiters :
            waiters[i].result \in {"pending", "true", "false"})
    /\ [][\A i \in DOMAIN waiters :
            /\ (waiters[i].result = "pending" /\ CompleteCalled(waiters[i].task_id))
                  => (waiters'[i].result # "false" /\ waiters'[i].is_set)
            /\ (waiters[i].result = "pending" /\ waiters[i].is_set)
                  => waiters'[i].result # "false"
            /\ (waiters[i].result = "pending" /\ waiters'[i].result = "true")
                  => waiters[i].is_set
            /\ (waiters[i].result = "pending" /\ waiters'[i].result = "false")
                  => (~waiters[i].is_set /\ waiters[i].left = 1)]_vars
    /\ [](wall = "true"
            => \A i \in Group(waiters) : waiters[i].result = "true")
    /\ [](wall = "false"
            => \E i \in Group(waiters) : waiters[i].result = "false")

(***************************************************************************)
(* C20 (Spec)                                                              *)
(***************************************************************************)
\* The reviewer's handler, suspended in review_code for file f, runs to its
\* end
ReviewCarriedOut(f) ==
    /\ Suspended("CodeReviewer", "review_request")
    /\ cur["CodeReviewer"].content.file = f
    /\ lpc'["CodeReviewer"] = "polling"

\* A step of the reviewer's handler: it takes a message or returns
ReviewerSteps ==
    \/ lpc'["CodeReviewer"] # lpc["CodeReviewer"]
    \/ /\ lpc["CodeReviewer"] = "polling"
       /\ queue["CodeReviewer"] # <<>>
       /\ queue'["CodeReviewer"] = Tail(queue["CodeReviewer"])

\* The generate_test_request sends started for file f and not yet run
TestRequests(p, f) ==
    {i \in DOMAIN p : /\ p[i].message_type = "generate_test_request"
                      /\ p[i].receiver_id = "TestGenerator"
                      /\ p[i].content.file = f}

\* C20: every review that is carried out moves its file to testing and
\* sends exactly one generate_test_request for it, for a first review and
\* for the review of a fix alike; no step of the reviewer puts a file in
\* fixing or changes a fix_count.
C20_ReviewAlwaysLeadsToTesting ==
    [][/\ \A f \in Files :
            ReviewCarriedOut(f)
              => /\ f \in DOMAIN task_states'
                 /\ task_states'[f].state = "testing"
                 /\ Len(pending') = Len(pending) + 1
                 /\ SubSeq(pending', 1, Len(pending)) = pending
                 /\ TestRequests(pending', f)
                      = TestRequests(pending, f) \cup {Len(pending')}
                 /\ pending'[Len(pending')].sender_id = "CodeReviewer"
                 /\ pending'[Len(pending')].content.code
                      = cur["CodeReviewer"].content.code
                 /\ queue'["TestGenerator"] = queue["TestGenerator"]
       /\ ReviewerSteps
            => \A f \in DOMAIN task_states' :
                  LET old == get_task_state(task_states, f)[f]
                  IN  /\ task_states'[f].fix_count = old.fix_count
                      /\ task_states'[f].state = "fixing"
                            => old.state = "fixing"]_vars

\* C20 witness: the review of a fix has just been carried out: the file is
\* in testing with its fix_count, and one test request for the fixed code
\* has been started.
C20_Witness ==
    \E f \in DOMAIN task_states :
        /\ task_states[f].state = "testing"
        /\ task_states[f].fix_count >= 1
        /\ lpc["CodeReviewer"] = "polling"
        /\ pending # <<>>
        /\ LET m == pending[Len(pending)]
           IN  /\ m.message_type = "generate_test_request"
               /\ m.sender_id = "CodeReviewer"
               /\ m.content.file = f
               /\ m.content.is_fix

(***************************************************************************)
(* C21 (Spec)                                                              *)
(***************************************************************************)
\* C21: the save loop at the end of run_build writes a generated file only
\* if its extracted content passes the safety scan made then, nothing else
\* writes to the output directory, and the counts returned satisfy
\* 0 <= saved <= generated with generated the size of generated_files.
C21_OnlyScannedFilesAreWritten ==
    /\ [][IF cpc = "waiting" /\ cpc' = "returned"
            THEN /\ \A f \in DOMAIN output_files' :
                      /\ f \in DOMAIN generated_files
                      /\ output_files'[f]
                           = extract_file_content(f, generated_files[f])
                      /\ is_safe_code(f, output_files'[f])
                 /\ build_result'.generated
                      = Cardinality(DOMAIN generated_files)
                 /\ build_result'.saved = Cardinality(DOMAIN output_files')
            ELSE output_files' = output_files]_vars
    /\ [](cpc = "returned"
            => /\ 0 <= build_result.saved
               /\ build_result.saved <= build_result.generated)

\* C21 witness: run_build has returned after a wait that succeeded, with
\* one generated file that the scan at save time kept out of the output
\* directory.
C21_Witness ==
    /\ outcome = "returned"
    /\ wresult = "true"
    /\ build_result.generated = 1
    /\ build_result.saved = 0
    /\ output_files = <<>>

(***************************************************************************)
(* C22 (Spec)                                                              *)
(***************************************************************************)
\* C22: with one build task, max_fix_attempts = 0 and no test run that
\* passes, the file is never put in fixing and never gets a fix attempt,
\* and when run_build has returned the file is done and, if the content
\* generated last passes the safety scan, the result reports saved = 1.
C22_NoFixBudgetEndsDoneAndSaved ==
    (/\ config.max_fix_attempts = 0
     /\ Len(config.build_tasks) = 1
     /\ \A f \in DOMAIN file_versions : \A i \in DOMAIN file_versions[f] :
            ~Passed(file_versions[f][i].test_result))
      => LET f == config.build_tasks[1]
         IN  /\ f \in DOMAIN task_states
                  => /\ task_states[f].state # "fixing"
                     /\ task_states[f].fix_count = 0
             /\ outcome = "returned"
                  => /\ f \in DOMAIN task_states
                     /\ task_states[f].state = "done"
                     /\ (/\ f \in DOMAIN generated_files
                          /\ is_safe_code(f, extract_file_content(f,
                                                generated_files[f])))
                           => build_result.saved = 1

(***************************************************************************)
(* C25 (ParseSpec)                                                         *)
(***************************************************************************)
\* C25: _parse_task_response returns what the first of its three attempts
\* that parses gives, the attempts being the json-fenced block, the first
\* bracketed span and the salvage of the outermost brackets with trailing
\* commas stripped, and the empty list when none parses; an array with a
\* trailing comma between two runs of prose yields the array's tasks.
C25_FirstAttemptThatParsesWins ==
    apc = "parsed"
      => /\ parsed =
               IF Loads(FencedSpan(response))
                 THEN TasksOf(FencedSpan(response))
               ELSE IF Loads(FirstSpan(response))
                 THEN TasksOf(FirstSpan(response))
               ELSE IF Loads(SalvageSpan(response))
                 THEN TasksOf(SalvageSpan(response))
               ELSE <<>>
         /\ response = <<"prose", "[", "{task}", ",", "]", "prose">>
               => parsed = <<"{task}">>

(***************************************************************************)
(* C23 (AdaptSpec)                                                         *)
(***************************************************************************)
\* A code_request is in a mailbox or being handled
CodeRequested ==
    \E a \in DOMAIN queue :
        \/ \E i \in DOMAIN queue[a] : queue[a][i].message_type = "code_request"
        \/ cur[a].message_type = "code_request"

\* C23: when ideation has yielded no tasks (no response was parsed to a
\* non-empty list before coordinate_ideation gave up), run_adaptive_build
\* raises the task-inference error, and then no StandardBuildPipeline
\* exists and no code_request has been sent; a build is started only with
\* the non-empty list a response was parsed to.
C23_NoTasksFailsWithoutBuild ==
    /\ [][(apc = "poll" /\ apc' # "poll")
            => IF inferred_tasks = <<>>
                 THEN apc' = "raised" /\ cpc' = "none" /\ tasks' = <<>>
                 ELSE apc' = "build" /\ tasks' = inferred_tasks]_vars
    /\ [](inferred_tasks # <<>>
            => (parsed # <<>> /\ inferred_tasks = parsed))
    /\ [](apc = "raised" => (cpc = "none" /\ ~CodeRequested))
    /\ [][apc = "raised" => apc' = "raised"]_vars

\* C23 witness: a response came and none of the parse attempts gave a
\* task, the ideation timeout elapsed, and run_adaptive_build has raised.
C23_Witness ==
    /\ apc = "raised"
    /\ response # <<>>
    /\ parsed = <<>>
    /\ ielapsed > MaxIdeation
    /\ cpc = "none"

(***************************************************************************)
(* C24 (SandboxSpec)                                                       *)
(***************************************************************************)
\* C24: a test run that times out or raises is recorded as a result that
\* did not pass, with the version saved, its test_run task id is
\* completed, the file's state and the requests sent are those of an
\* ordinary test failure, and the handler returns to its loop.
C24_RunErrorIsAFailedTest ==
    [][\A f \in Files :
          (/\ Next_("TestRunner", "run_test_request")
           /\ Head(queue["TestRunner"]).content.file = f
           /\ queue'["TestRunner"] = Tail(queue["TestRunner"])
           /\ f \in DOMAIN test_results'
           /\ test_results'[f] = "error")
            => LET c == Head(queue["TestRunner"]).content
                   old == get_task_state(task_states, f)[f]
                   max == config.max_fix_attempts
               IN  /\ ~Passed(test_results'[f])
                   /\ c.task_id \in completed'
                   /\ LET vs == file_versions'[f]
                      IN  /\ Len(vs) = Len(file_versions[f]) + 1
                          /\ vs[Len(vs)].test_result = "error"
                   /\ task_states'[f] = RunnerDecision(old, FALSE, max)
                   /\ task_states'[f].state
                        \in {"fixing", "rollback_assessment"}
                   /\ pending' = pending
                        \o RunnerSends(f, old, task_states'[f], FALSE, max)
                   /\ lpc'["TestRunner"] = "polling"]_vars

\* C24 witness: the last test run of a file timed out or raised; the file
\* is in rollback_assessment and the run's task id is completed.
C24_Witness ==
    \E f \in DOMAIN test_results :
        /\ test_results[f] = "error"
        /\ TaskId("test_run", f, 0) \in completed
        /\ f \in DOMAIN task_states
        /\ task_states[f].state = "rollback_assessment"
        /\ lpc["TestRunner"] = "polling"

(***************************************************************************)
(* C26 (BusSpec)                                                           *)
(***************************************************************************)
\* C26: whenever an agent's handler is invoked, no handler of that agent is
\* running (the previous one has ended), the message is the oldest one in
\* the mailbox, every message handled before was enqueued earlier and
\* every message left in the mailbox was enqueued later.
C26_HandlersRunInOrderOneAtATime ==
    [][\A a \in BusIds :
          handled'[a] # handled[a]
            => /\ lpc[a] = "polling"
               /\ lpc'[a] = "handling"
               /\ queue[a] # <<>>
               /\ handled'[a] = Append(handled[a], Head(queue[a]))
               /\ cur'[a] = Head(queue[a])
               /\ \A i \in DOMAIN handled[a] :
                     handled[a][i].timestamp < Head(queue[a]).timestamp
               /\ \A i \in DOMAIN queue'[a] :
                     Head(queue[a]).timestamp < queue'[a][i].timestamp]_vars

\* C26 witness: an agent's handler runs on the second of two messages that
\* were enqueued for it, after its handler ran on the first.
C26_Witness ==
    \E a \in BusIds :
        /\ Len(handled[a]) = 2
        /\ lpc[a] = "handling"
        /\ cur[a] = handled[a][2]
        /\ handled[a][1].timestamp < handled[a][2].timestamp

(***************************************************************************)
(* C27 (BusSpec)                                                           *)
(***************************************************************************)
\* C27 as stated: whenever an agent's receive loop ends, running is false
\* and the mailbox is empty, so no message that waited in the mailbox when
\* running was cleared is left unhandled.
C27_LoopEndsOnlyStoppedAndDrained ==
    [][\A a \in BusIds :
          (lpc[a] \in {"polling", "handling"}
             /\ lpc'[a] \notin {"polling", "handling"})
            => (~running[a] /\ queue[a] = <<>>)]_vars

(***************************************************************************)
(* C28 (Spec)                                                              *)
(***************************************************************************)
\* C28 as stated: once run_build has shut the agents down, a message that
\* waits in a mailbox stays there: no receive loop takes a message and
\* invokes its handler on it.
C28_WaitingMessagesAreDropped ==
    [][cpc = "returned"
         => \A a \in DOMAIN queue :
               ~(/\ queue[a] # <<>>
                 /\ lpc[a] = "polling"
                 /\ lpc'[a] = "handling"
                 /\ cur'[a] = Head(queue[a])
                 /\ queue'[a] = Tail(queue[a]))]_vars

(***************************************************************************)
(* C29 (SubprocessSpec)                                                    *)
(***************************************************************************)
\* C29 as stated: while the handler of one agent is inside an LLM call or
\* inside a sandboxed test run, every other agent whose receive loop has a
\* message to take can take it and run its handler.
C29_CallsSuspendOnlyTheirCaller ==
    \A a \in Roster :
        lpc[a] \in {"handling", "subprocess"}
          => \A b \in Roster \ {a} :
                CanGet(b)
                  => ENABLED (SubprocessNext /\ queue'[b] = Tail(queue[b]))

(***************************************************************************)
(* C30 (Spec)                                                              *)
(***************************************************************************)
\* The edges of the transition diagram of a file's state
DiagramEdges ==
    {<<"init", "generating">>, <<"generating", "generating">>,
     <<"generating", "reviewing">>, <<"reviewing", "testing">>,
     <<"testing", "done">>, <<"testing", "fixing">>,
     <<"testing", "rollback_assessment">>, <<"fixing", "generating">>,
     <<"rollback_assessment", "rolled_back">>,
     <<"rollback_assessment", "done">>, <<"rolled_back", "done">>,
     <<"done", "improving">>, <<"improving", "reviewing">>}

\* The state of file f as get_task_state reports it: init until recorded
StateOf(ts, f) == IF f \in DOMAIN ts THEN ts[f].state ELSE "init"

\* C30 as stated: in every step of run_build, a file whose state changes
\* goes along an edge of the transition diagram.
C30_EveryChangeIsADiagramEdge ==
    [][\A f \in Files :
          StateOf(task_states', f) # StateOf(task_states, f)
            => <<StateOf(task_states, f), StateOf(task_states', f)>>
                  \in DiagramEdges]_vars

(***************************************************************************)
(* C31 (Spec)                                                              *)
(***************************************************************************)
\* C31 as stated: a failed test run of a file whose fix_count is below
\* max_fix_attempts sets the state to fixing, adds exactly one to fix_count
\* and starts exactly one send, a fix_code_request for the file to the
\* writer.
C31_FailureWithBudgetRequestsOneFix ==
    [][\A f \in DOMAIN task_states :
          (FailedRunOf(f)
             /\ task_states[f].fix_count < config.max_fix_attempts)
            => /\ task_states'[f].state = "fixing"
               /\ task_states'[f].fix_count = task_states[f].fix_count + 1
               /\ Len(pending') = Len(pending) + 1
               /\ SubSeq(pending', 1, Len(pending)) = pending
               /\ LET m == pending'[Len(pending')]
                  IN  /\ m.message_type = "fix_code_request"
                      /\ m.sender_id = "TestRunner"
                      /\ m.receiver_id = "CodeWriter"
                      /\ m.content.file = f]_vars

(***************************************************************************)
(* C32 (Spec), C33 (RepeatSpec)                                            *)
(***************************************************************************)
\* C32 as stated, in its finite form: a file in rolled_back has fix_count 0,
\* and rolled_back is not the state a file is left in once the agents,
\* still running, have nothing more to do: the state has re-entered done.
C32_RollbackReentersDone ==
    \A f \in DOMAIN task_states :
        /\ task_states[f].state = "rolled_back"
              => task_states[f].fix_count = 0
        /\ Quiescent => task_states[f].state # "rolled_back"

\* The rollback agent's handler ends by executing a rollback of file f
RollbackExecuted(f) ==
    /\ Suspended("RollbackAgent", "rollback_assessment_request")
    /\ cur["RollbackAgent"].content.file = f
    /\ lpc'["RollbackAgent"] = "polling"
    /\ f \in DOMAIN task_states'
    /\ task_states'[f].state = "rolled_back"

\* The positions of the versions of a history whose test result passed
PassedAt(vs) == {i \in DOMAIN vs : vs[i].test_result \in {"passed", "passed_rollback"}}

\* C33 as stated: when a rollback of a file is executed, its history holds a version
\* that passed, generated_files gets the code of the newest such version,
\* and the history grows by exactly one version, which carries that code.
C33_RollbackRestoresNewestPassing ==
    [][\A f \in Files :
          RollbackExecuted(f)
            => LET vs == file_versions[f]
                   ok == PassedAt(vs)
               IN  /\ ok # {}
                   /\ \E i \in ok :
                         /\ \A j \in ok : j <= i
                         /\ generated_files'[f] = vs[i].code
                         /\ Len(file_versions'[f]) = Len(vs) + 1
                         /\ SubSeq(file_versions'[f], 1, Len(vs)) = vs
                         /\ file_versions'[f][Len(vs) + 1].code = vs[i].code]_vars

(***************************************************************************)
(* C34 (PlanSpec)                                                          *)
(***************************************************************************)
\* C34 as stated: with generate_plan set, when a code_request has been
\* dispatched, either plan generation had finished when the plan wait
\* returned (the wait returned because the plan task was completed, and the
\* plan text is stored) or the plan wait timed out.
C34_NoDispatchBeforePlan ==
    CodeRequested
      => \/ wresult = "false"
         \/ /\ "generate_plan" \in completed
            /\ plan_output # <<>>

(***************************************************************************)
(* C35 (Spec)                                                              *)
(***************************************************************************)
\* C35: in every file's version history the entry at position i (counted
\* from 0) has version index i, and every step leaves each history as it
\* was or extends it at the end: no entry is changed, moved or removed.
C35_HistoryIsAppendOnly ==
    /\ [](\A f \in DOMAIN file_versions :
            \A i \in DOMAIN file_versions[f] :
                file_versions[f][i].version = i - 1)
    /\ [][\A f \in DOMAIN file_versions :
            /\ f \in DOMAIN file_versions'
            /\ Len(file_versions'[f]) >= Len(file_versions[f])
            /\ SubSeq(file_versions'[f], 1, Len(file_versions[f]))
                  = file_versions[f]]_vars

\* C35 witness: a history that the writer, the test runner and the
\* rollback handler have all appended to.
C35_Witness ==
    \E f \in DOMAIN file_versions :
        LET vs == file_versions[f]
        IN  /\ Len(vs) >= 4
            /\ vs[Len(vs)].test_result = "passed_rollback"
            /\ \E i \in DOMAIN vs : vs[i].test_result = "none"
            /\ \E i \in DOMAIN vs : vs[i].test_result = "failed"

C37_FilesFinalWhenWaitReturns ==
    [][(cpc = "waiting" /\ cpc' = "returned" /\ wresult = "true")
          => \A i \in 1..Len(config.build_tasks) :
                StateOf(task_states, config.build_tasks[i])
                    \in {"done", "rolled_back"}]_vars

(***************************************************************************)
(* C38 (ErrSpec)                                                           *)
(***************************************************************************)
\* C38 as stated: once the writer has taken up the code_request of a file
\* (it created the id code_gen_<file>), that id is eventually completed,
\* whatever the safety scan says about the code.
C38_CodeGenIsCompleted ==
    \A f \in Files :
        (TaskId("code_gen", f, 0) \in DOMAIN events)
            ~> (TaskId("code_gen", f, 0) \in completed)

(***************************************************************************)
(* C39 (ErrSpec)                                                           *)
(***************************************************************************)
\* C39: run_build terminates.  The global wait of coordinate() always ends,
\* and once it has ended every agent's receive loop exits and run_build
\* returns, for every max_fix_attempts and every outcome of the test runs.
C39_RunBuildTerminates ==
    /\ (cpc = "waiting") ~> (cpc = "waiting" /\ wpc = "done")
    /\ (cpc = "waiting" /\ wpc = "done")
          ~> (/\ outcome # "running"
              /\ \A a \in Roster : lpc[a] = "exited")

\* C39 witness: run_build has returned with every loop exited, after a test
\* run failed and a fix attempt was counted.
C39_Witness ==
    /\ outcome = "returned"
    /\ \A a \in Roster : lpc[a] = "exited"
    /\ \E f \in DOMAIN task_states : task_states[f].fix_count >= 1

(***************************************************************************)
(* C40 (FanoutSpec)                                                        *)
(***************************************************************************)
\* C40 as stated: a subscribe_to_topic step for an id that is not registered
\* leaves the subscriber table as it was, so every id a step adds to a
\* topic's subscriber list is registered at that step.
C40_UnregisteredSubscribeChangesNothing ==
    [][\A topic \in DOMAIN subscribers' :
          LET old == IF topic \in DOMAIN subscribers
                       THEN Range(subscribers[topic]) ELSE {}
          IN  \A a \in Range(subscribers'[topic]) \ old : a \in agents]_vars

=============================================================================
